---- MODULE Spec2Model ----
(***************************************************************************)
(* The EventProcessor of the Braintrust tracing plugin                     *)
(* (src/src/event-processor.ts, lines 556-1337), its in-memory SpanSink    *)
(* (src/src/span-sink.ts) and the driver of the test helpers that feeds    *)
(* it, as one state machine.  A step is one whole handler call: the host   *)
(* awaits every call before it delivers the next one.                      *)
(***************************************************************************)
EXTENDS Integers, Sequences, FiniteSets, TLC

VARIABLES
    sessionStates,  \* EventProcessor.sessionStates: session id -> SessionState
    emitted,        \* every record handed to spanSink.insertSpan, in call order,
                    \* each tagged with the session id whose handler built it
    spans,          \* TestSpanCollector.spans
    nextId,         \* number of ids generateUUID has handed out
    now,            \* what clock.now() returns
    lastCall,       \* the event or hook call delivered last
    raised,         \* whether the last call rejected (threw)
    pc,             \* the driver loop: "running", or "returned"
    host,           \* what the host of this run delivers: the session ids it uses
                    \* and how many records it lets the run emit
    suspended,      \* the handler executions that wait at an await of
                    \* spanSink.insertSpan, each with its local variables
    hooks           \* the hooks createTracingHooks returns: the sessionStates map
                    \* of client.ts, every record handed to btClient.insertSpan,
                    \* the ids handed out, and the item delivered last

vars ==
    <<sessionStates, emitted, spans, nextId, now, lastCall, raised, pc, host, suspended, hooks>>

(***************************************************************************)
(* Bounds of the model.  A host runs one session or two; no call is        *)
(* delivered once the run emitted its number of records.  Under Spec the   *)
(* clock stands still; under SpecTimed it ticks and the driver returns;    *)
(* under SpecLossy the sink is the Braintrust client, whose writes fail.   *)
(***************************************************************************)
MaxSpans == 6         \* records of a run with one session
MaxNestedSpans == 4   \* records of a run with two sessions
MaxVariedSpans == 3   \* records of a run whose inputs vary in token counts or titles
MaxTimedSpans == 3    \* records of a run with two sessions under SpecTimed
MaxTimedSingle == 4   \* records of a run with one session under SpecTimed
MaxTimedParts == 5    \* records of a run with one session and message fragments under SpecTimed
MaxTextSpans == 5     \* records of a run whose text fragments vary
MaxOverlapSpans == 5  \* records a run under SpecInterleaved emits before its last calls start
MaxSuspended == 2     \* handler executions suspended at once under SpecInterleaved
MaxHookSpans == 4     \* records the processor emits in a run under SpecHooks before its last call
MaxLossySpans == 4    \* records of a run under SpecLossy
MaxTime == 2          \* the ticking clock runs over 1..MaxTime
MaxStored == 3        \* records the collector holds under SpecSink

(***************************************************************************)
(* Bounds of the model, continued: SpecSink drives the collector and       *)
(* spansToTree alone, with records of its own.                             *)
(*                                                                         *)
(* "undefined" for the three kinds of optional value.                      *)
(***************************************************************************)
NoId == 0
NoNum == -1
NoStr == "<undefined>"

(***************************************************************************)
(* The inputs the host draws from.                                         *)
(***************************************************************************)
SessionIds == {"ses_a", "ses_b"}
UnknownSession == "ses_0"     \* a session id the processor is never told about
\* a host with two sessions delivers tool hooks or message parts, not both;
\* a host that feeds "tokens" delivers messages with any of the token counts,
\* one that feeds "titles" tool hooks with any of the tools and titles, one
\* that feeds "subagents" sessions with any of the session titles
Hosts ==
    {[sessions |-> {"ses_a"}, maxSpans |-> MaxSpans, feeds |-> {"tools", "parts"}, sink |-> "collector"],
     [sessions |-> {"ses_a"}, maxSpans |-> MaxVariedSpans, feeds |-> {"tokens"}, sink |-> "collector"],
     [sessions |-> {"ses_a"}, maxSpans |-> MaxVariedSpans, feeds |-> {"tools", "titles"},
      sink |-> "collector"],
     [sessions |-> SessionIds, maxSpans |-> MaxVariedSpans, feeds |-> {"subagents"},
      sink |-> "collector"],
     [sessions |-> SessionIds, maxSpans |-> MaxNestedSpans, feeds |-> {"tools"}, sink |-> "collector"],
     [sessions |-> SessionIds, maxSpans |-> MaxNestedSpans, feeds |-> {"parts"}, sink |-> "collector"]}
\* a host whose sink is the Braintrust client: any write may fail
LossyHosts ==
    {[sessions |-> {"ses_a"}, maxSpans |-> MaxLossySpans, feeds |-> {"tools", "parts"},
      sink |-> "client"]}
\* the hosts under SpecFragments: a host that feeds "texts" delivers text
\* fragments of any text, one that feeds "reasoning" reasoning fragments, one
\* that feeds "calls" tool-call fragments, one that feeds "messages" fragments
\* and completions of two messages
FragmentHosts ==
    {[sessions |-> {"ses_a"}, maxSpans |-> MaxTextSpans, feeds |-> {"parts", "texts"},
      sink |-> "collector"],
     [sessions |-> {"ses_a"}, maxSpans |-> MaxVariedSpans,
      feeds |-> {"parts", "texts", "messages"}, sink |-> "collector"],
     [sessions |-> {"ses_a"}, maxSpans |-> MaxVariedSpans,
      feeds |-> {"parts", "texts", "reasoning", "calls"}, sink |-> "collector"],
     [sessions |-> {"ses_a"}, maxSpans |-> MaxVariedSpans,
      feeds |-> {"tools", "parts", "reasoning", "calls", "messages"}, sink |-> "collector"]}
\* a host under SpecInterleaved: one top-level session
InterleavedHosts ==
    {[sessions |-> {"ses_a"}, maxSpans |-> MaxOverlapSpans, feeds |-> {}, sink |-> "collector"]}
\* a host under SpecHooks: one session, every event and hook call
HookHosts ==
    {[sessions |-> {"ses_a"}, maxSpans |-> MaxHookSpans, feeds |-> {"tools", "parts"},
      sink |-> "collector"]}
\* a host under SpecStreamed: one session, message fragments and no tool
\* hooks, a ticking clock
StreamedHosts ==
    {[sessions |-> {"ses_a"}, maxSpans |-> MaxTimedParts, feeds |-> {"parts"},
      sink |-> "collector"]}
TimedHosts ==
    {[sessions |-> {"ses_a"}, maxSpans |-> MaxTimedSingle, feeds |-> {"tools"}, sink |-> "collector"],
     [sessions |-> SessionIds, maxSpans |-> MaxTimedSpans, feeds |-> {"tools"}, sink |-> "collector"],
     [sessions |-> SessionIds, maxSpans |-> MaxTimedSpans, feeds |-> {"parts"}, sink |-> "collector"]}
\* the parent references a session.created event for id may carry
ParentRefs(id) ==
    IF id = "ses_a" THEN {NoStr, UnknownSession, "ses_b"} ELSE {NoStr, "ses_a"}
MessageIds == {"msg_1"}
CallIds == {"call_1"}
UserMessages == {"Hello"}
PartTexts == {"Hi"}
VariedMessageIds == {"msg_1", "msg_2"}
VariedPartTexts == {"Hi", "Bye", ""}
VariedReasoningTexts == {"think", "plan", ""}
ReasoningTexts == {"think"}
SessionTitles == {"Find files (@explore subagent)"}
VariedSessionTitles ==
    {"Find files (@explore subagent)", "Review code (@code-reviewer subagent)",
     "Fix the build", "", NoStr}
ToolNames == {"read"}
ToolTitles == {"/a/b/config.ts"}
Chars10 == "0123456789"
Chars50 == Chars10 \o Chars10 \o Chars10 \o Chars10 \o Chars10
VariedToolNames == {"read", "edit", "bash"}
VariedToolTitles ==
    {"/a/b/config.ts", "src/", "ls a/b", "", NoStr,
     Chars50, Chars50 \o "x", "/a/" \o Chars50 \o "x", "/a/" \o Chars50}
ToolOutputs == {"out"}
ToolInputs == {"{filePath}"}
VariedToolInputs == {"{filePath}", NoStr}
Roles == {"assistant", "user"}
ChatModels == {[providerID |-> "anthropic", modelID |-> "claude-3-haiku"]}
SessionErrors ==
    {[name |-> "ApiError", message |-> "Rate limit exceeded"],
     [name |-> "ApiError", message |-> NoStr],
     [name |-> NoStr, message |-> NoStr]}

config == [projectName |-> "test-project", worktree |-> NoStr, directory |-> NoStr]

(***************************************************************************)
(* Maps (JavaScript Map and object spread).                                *)
(***************************************************************************)
EmptyMap == [k \in {} |-> NoStr]
MapSet(m, k, v) == [x \in DOMAIN m \cup {k} |-> IF x = k THEN v ELSE m[x]]
MapDelete(m, k) == [x \in DOMAIN m \ {k} |-> m[x]]
MapGetStr(m, k) == IF k \in DOMAIN m THEN m[k] ELSE NoStr
MapGetNum(m, k) == IF k \in DOMAIN m THEN m[k] ELSE NoNum
Spread(a, b) == [k \in DOMAIN a \cup DOMAIN b |-> IF k \in DOMAIN b THEN b[k] ELSE a[k]]

(***************************************************************************)
(* String conversions.                                                     *)
(***************************************************************************)
Digit(d) ==
    CASE d = 0 -> "0" [] d = 1 -> "1" [] d = 2 -> "2" [] d = 3 -> "3" [] d = 4 -> "4"
      [] d = 5 -> "5" [] d = 6 -> "6" [] d = 7 -> "7" [] d = 8 -> "8" [] d = 9 -> "9"

RECURSIVE NumberToString(_)
NumberToString(n) ==
    IF n < 10 THEN Digit(n) ELSE NumberToString(n \div 10) \o Digit(n % 10)

\* new Date(t).toISOString(): a string that orders as t does
ToISOString(t) == <<"ISO", t>>

\* x || undefined, for a string
OrUndefined(x) == IF x = "" THEN NoStr ELSE x

(***************************************************************************)
(* The sub-agent title: /^(.+?)\s+\(@(\w+)\s+subagent\)$/ on the session   *)
(* title.  The suffix is fixed, the two whitespace runs and the \w+ run    *)
(* are delimited by characters outside their classes, and the lazy first   *)
(* group takes the shortest prefix that leaves only whitespace before      *)
(* "(@".                                                                   *)
(***************************************************************************)
CharAt(s, i) == SubSeq(s, i, i)
SpaceChars == {" ", "\t", "\n", "\r"}
LineTerminators == {"\n", "\r"}
WordChars ==
    {"a", "b", "c", "d", "e", "f", "g", "h", "i", "j", "k", "l", "m", "n", "o", "p", "q",
     "r", "s", "t", "u", "v", "w", "x", "y", "z", "A", "B", "C", "D", "E", "F", "G", "H",
     "I", "J", "K", "L", "M", "N", "O", "P", "Q", "R", "S", "T", "U", "V", "W", "X", "Y",
     "Z", "0", "1", "2", "3", "4", "5", "6", "7", "8", "9", "_"}
SubagentSuffix == "subagent)"

Max(S) == CHOOSE x \in S : \A y \in S : y <= x

\* the last position <= hi whose character is not in the class, 0 if none
LastOutside(s, hi, class) ==
    Max({0} \cup {x \in 1..hi : CharAt(s, x) \notin class})

\* the match of the pattern against s: <<description, agentType>>, or <<>>
SubagentMatch(s) ==
    LET n == Len(s)
        l == n - Len(SubagentSuffix)            \* end of the second \s+
        k == LastOutside(s, l, SpaceChars)      \* end of (\w+)
        a == LastOutside(s, k, WordChars) + 1   \* start of (\w+)
        j == a - 3                              \* end of the first \s+
        p == LastOutside(s, j, SpaceChars)
        i == IF p = 0 THEN 1 ELSE p             \* end of (.+?)
    IN  IF /\ l >= 1
           /\ SubSeq(s, l + 1, n) = SubagentSuffix
           /\ k >= 1 /\ k < l
           /\ a <= k
           /\ j >= 2
           /\ SubSeq(s, a - 2, a - 1) = "(@"
           /\ i < j
           /\ \A x \in 1..i : CharAt(s, x) \notin LineTerminators
        THEN <<SubSeq(s, 1, i), SubSeq(s, a, k)>>
        ELSE <<>>

SubagentTitle(sessionTitle) ==
    IF sessionTitle = NoStr \/ sessionTitle = ""
    THEN "Subagent"
    ELSE LET match == SubagentMatch(sessionTitle)
         IN  IF match # <<>> THEN match[2] \o ": " \o match[1] ELSE sessionTitle

(***************************************************************************)
(* formatToolName                                                          *)
(***************************************************************************)
Includes(s, c) == \E x \in 1..Len(s) : CharAt(s, x) = c

\* parts[parts.length - 1] of title.split("/")
LastSegment(title) ==
    SubSeq(title, Max({0} \cup {x \in 1..Len(title) : CharAt(title, x) = "/"}) + 1,
           Len(title))

\* variant: a long title is cut after 50 characters, before the dots are added
FormatToolName_Cut50(tool, title) ==
    IF title = NoStr \/ title = ""
    THEN tool
    ELSE LET displayTitle ==
                 IF (tool = "read" \/ tool = "edit") /\ Includes(title, "/")
                 THEN (IF LastSegment(title) = "" THEN title ELSE LastSegment(title))
                 ELSE title
             shortTitle ==
                 IF Len(displayTitle) > 50
                 THEN SubSeq(displayTitle, 1, 50) \o "..."
                 ELSE displayTitle
         IN  tool \o ": " \o shortTitle

FormatToolName(tool, title) ==
    IF title = NoStr \/ title = ""
    THEN tool
    ELSE LET displayTitle ==
                 IF (tool = "read" \/ tool = "edit") /\ Includes(title, "/")
                 THEN (IF LastSegment(title) = "" THEN title ELSE LastSegment(title))
                 ELSE title
             shortTitle ==
                 IF Len(displayTitle) > 50
                 THEN SubSeq(displayTitle, 1, 47) \o "..."
                 ELSE displayTitle
         IN  tool \o ": " \o shortTitle

(***************************************************************************)
(* TestSpanCollector: merge-or-insert.                                     *)
(***************************************************************************)
IsMerge(span) == "_is_merge" \in DOMAIN span /\ span._is_merge

ObjectOf(span, key) == IF key \in DOMAIN span THEN span[key] ELSE EmptyMap

\* findIndex((s) => s.span_id === span.span_id), 0 when there is none
FindIndex(stored, spanId) ==
    IF \E i \in 1..Len(stored) : stored[i].span_id = spanId
    THEN CHOOSE i \in 1..Len(stored) :
             /\ stored[i].span_id = spanId
             /\ \A j \in 1..(i - 1) : stored[j].span_id # spanId
    ELSE 0

\* variant: { ...existing, ...span } alone, metadata and metrics replaced wholesale
MergeSpan_Replace(existing, span) ==
    [k \in DOMAIN existing \cup DOMAIN span |->
        IF k \in DOMAIN span THEN span[k] ELSE existing[k]]

MergeSpan(existing, span) ==
    [k \in DOMAIN existing \cup DOMAIN span \cup {"metadata", "metrics"} |->
        IF k = "metadata" THEN Spread(ObjectOf(existing, "metadata"), ObjectOf(span, "metadata"))
        ELSE IF k = "metrics" THEN Spread(ObjectOf(existing, "metrics"), ObjectOf(span, "metrics"))
        ELSE IF k \in DOMAIN span THEN span[k]
        ELSE existing[k]]

\* variant: a merge record that matches nothing is ignored
InsertSpan_DropUnmatched(stored, span) ==
    LET existingIndex == FindIndex(stored, span.span_id)
    IN  IF IsMerge(span)
        THEN IF existingIndex >= 1
             THEN [stored EXCEPT ![existingIndex] = MergeSpan(stored[existingIndex], span)]
             ELSE stored
        ELSE Append(stored, span)

InsertSpan(stored, span) ==
    LET existingIndex == FindIndex(stored, span.span_id)
    IN  IF IsMerge(span) /\ existingIndex >= 1
        THEN [stored EXCEPT ![existingIndex] = MergeSpan(stored[existingIndex], span)]
        ELSE Append(stored, span)

\* the elements of s at the positions in keep, in order
RECURSIVE SelectAt(_, _)
SelectAt(s, keep) ==
    IF keep = {} THEN <<>>
    ELSE LET last == Max(keep)
         IN  Append(SelectAt(s, keep \ {last}), s[last])

RECURSIVE InsertAll(_, _)
InsertAll(stored, records) ==
    IF records = <<>> THEN stored
    ELSE InsertAll(InsertSpan(stored, Head(records).span), Tail(records))

\* what insertSpan resolves to: return span.span_id, on both paths
InsertSpanReturn(stored, span) == span.span_id

(***************************************************************************)
(* spansToTree.  A node of the tree keeps the span's id, name, type,       *)
(* metrics and metadata and, as the identity that spans.indexOf(c) finds,  *)
(* the position in the input list of the span it was built from.           *)
(***************************************************************************)
HasParents(span) == "span_parents" \in DOMAIN span /\ Len(span.span_parents) > 0

\* spans.find(...): position of the first span with no parent or its own id as parent
RootIndex(stored) ==
    LET IsRoot(i) == ~HasParents(stored[i]) \/ stored[i].span_parents[1] = stored[i].span_id
    IN  IF \E i \in 1..Len(stored) : IsRoot(i)
        THEN CHOOSE i \in 1..Len(stored) : IsRoot(i) /\ \A j \in 1..(i - 1) : ~IsRoot(j)
        ELSE 0

\* variant: a span is listed under every one of its parents
ChildrenOf_AnyParent(stored, id) ==
    {i \in 1..Len(stored) :
        /\ HasParents(stored[i])
        /\ \E p \in 1..Len(stored[i].span_parents) : stored[i].span_parents[p] = id
        /\ stored[i].span_parents[1] # stored[i].span_id}

\* childrenMap.get(id): positions of the spans whose first parent is id
ChildrenOf(stored, id) ==
    {i \in 1..Len(stored) :
        /\ HasParents(stored[i])
        /\ stored[i].span_parents[1] = id
        /\ stored[i].span_parents[1] # stored[i].span_id}

\* a.span.metrics?.start || 0
StartOrZero(span) ==
    IF "metrics" \in DOMAIN span /\ "start" \in DOMAIN span.metrics
       /\ span.metrics.start # NoNum
    THEN span.metrics.start ELSE 0

\* the comparator of indexedChildren.sort: negative exactly when i goes before j
ComesBefore(stored, i, j) ==
    IF StartOrZero(stored[i]) # StartOrZero(stored[j])
    THEN StartOrZero(stored[i]) - StartOrZero(stored[j]) < 0
    ELSE i - j < 0

\* variant: the children are left in the order of the input list
RECURSIVE SortChildren_Unsorted(_, _)
SortChildren_Unsorted(stored, children) ==
    IF children = {} THEN <<>>
    ELSE LET first == CHOOSE i \in children : \A j \in children : i <= j
         IN  <<first>> \o SortChildren_Unsorted(stored, children \ {first})

\* indexedChildren.sort(...): the positions in the order of the comparator
RECURSIVE SortChildren(_, _)
SortChildren(stored, children) ==
    IF children = {} THEN <<>>
    ELSE LET first == CHOOSE i \in children :
                          \A j \in children \ {i} : ComesBefore(stored, i, j)
         IN  <<first>> \o SortChildren(stored, children \ {first})

\* span.span_attributes?.name, span.span_attributes?.type
AttributeOf(span, key) ==
    IF "span_attributes" \in DOMAIN span THEN span.span_attributes[key] ELSE NoStr

RECURSIVE BuildNode(_, _)
BuildNode(stored, i) ==
    LET span == stored[i]
        sortedChildren == SortChildren(stored, ChildrenOf(stored, span.span_id))
    IN  [index |-> i,
         span_id |-> span.span_id,
         name |-> AttributeOf(span, "name"),
         type |-> AttributeOf(span, "type"),
         metrics |-> ObjectOf(span, "metrics"),
         metadata |-> ObjectOf(span, "metadata"),
         children |-> [c \in 1..Len(sortedChildren) |-> BuildNode(stored, sortedChildren[c])]]

\* <<>> stands for null
SpansToTree(stored) ==
    IF Len(stored) = 0 \/ RootIndex(stored) = 0 THEN <<>>
    ELSE BuildNode(stored, RootIndex(stored))

(***************************************************************************)
(* SessionState                                                            *)
(***************************************************************************)
NewSessionState(rootSpanId, effectiveRootSpanId, startTime, parentSessionId, parentRootSpanId, parentTurnSpanId, subagentTitle) ==
    [rootSpanId |-> rootSpanId,
     effectiveRootSpanId |-> effectiveRootSpanId,
     currentTurnSpanId |-> NoId,
     turnNumber |-> 0,
     toolCallCount |-> 0,
     startTime |-> startTime,
     currentTurnStartTime |-> NoNum,
     currentInput |-> NoStr,
     currentOutput |-> NoStr,
     parentSessionId |-> parentSessionId,
     parentRootSpanId |-> parentRootSpanId,
     parentTurnSpanId |-> parentTurnSpanId,
     subagentTitle |-> subagentTitle,
     llmOutputParts |-> EmptyMap,
     llmToolCalls |-> EmptyMap,
     llmReasoningParts |-> EmptyMap,
     processedLlmMessages |-> {},
     toolStartTimes |-> EmptyMap,
     toolCallMessageIds |-> EmptyMap]

HasState(s) == s \in DOMAIN sessionStates

\* variant: a turn counts as open once any turn was started, if (state.turnNumber)
HasOpenTurn_AnyTurn(state) == state.turnNumber # 0

\* if (state.currentTurnSpanId)
HasOpenTurn(state) == state.currentTurnSpanId # NoId

\* variant: every session is taken for a child, !!state.rootSpanId
IsChildSession_Always(state) == state.rootSpanId # NoId

\* variant: a child is known by the turn it hangs under, !!state.parentTurnSpanId
IsChildSession_ByTurn(state) == state.parentTurnSpanId # NoId

\* const isChildSession = !!state.parentSessionId
IsChildSession(state) == state.parentSessionId # NoStr /\ state.parentSessionId # ""

SetState(s, state) ==
    [x \in DOMAIN sessionStates \cup {s} |-> IF x = s THEN state ELSE sessionStates[x]]

DeleteState(s) == [x \in DOMAIN sessionStates \ {s} |-> sessionStates[x]]

(***************************************************************************)
(* The records the handlers build.                                         *)
(***************************************************************************)
\* variant: the closing merge takes the id of the root span for its own
TurnCloseSpan_RootId(state, end, errorString) ==
    LET base == [id |-> state.rootSpanId,
                 span_id |-> state.currentTurnSpanId,
                 root_span_id |-> state.effectiveRootSpanId,
                 output |-> OrUndefined(state.currentOutput),
                 metrics |-> [end |-> end],
                 _is_merge |-> TRUE]
    IN  IF errorString = NoStr THEN base ELSE Spread(base, [error |-> errorString])

\* the merge record that closes the open turn; errorString = NoStr: no error key
TurnCloseSpan(state, end, errorString) ==
    LET base == [id |-> state.currentTurnSpanId,
                 span_id |-> state.currentTurnSpanId,
                 root_span_id |-> state.effectiveRootSpanId,
                 output |-> OrUndefined(state.currentOutput),
                 metrics |-> [end |-> end],
                 _is_merge |-> TRUE]
    IN  IF errorString = NoStr THEN base ELSE Spread(base, [error |-> errorString])

\* variant: the closing merge names the trace's root instead of the session's own
RootCloseSpan_EffectiveRoot(state, end, errorString, errorName) ==
    LET totals == [total_turns |-> state.turnNumber,
                   total_tool_calls |-> state.toolCallCount]
        base == [id |-> state.effectiveRootSpanId,
                 span_id |-> state.effectiveRootSpanId,
                 root_span_id |-> state.effectiveRootSpanId,
                 metrics |-> [end |-> end],
                 metadata |-> totals,
                 _is_merge |-> TRUE]
    IN  IF errorName = NoStr THEN base
        ELSE Spread(base, [error |-> errorString,
                           metadata |-> Spread(totals, [error_type |-> errorName])])

\* the merge record that closes the root span; errorName = NoStr: a clean end
RootCloseSpan(state, end, errorString, errorName) ==
    LET totals == [total_turns |-> state.turnNumber,
                   total_tool_calls |-> state.toolCallCount]
        base == [id |-> state.rootSpanId,
                 span_id |-> state.rootSpanId,
                 root_span_id |-> state.effectiveRootSpanId,
                 metrics |-> [end |-> end],
                 metadata |-> totals,
                 _is_merge |-> TRUE]
    IN  IF errorName = NoStr THEN base
        ELSE Spread(base, [error |-> errorString,
                           metadata |-> Spread(totals, [error_type |-> errorName])])

TurnSpan(state, turnSpanId, turnNumber, userMessage, model, start) ==
    [id |-> turnSpanId,
     span_id |-> turnSpanId,
     root_span_id |-> state.effectiveRootSpanId,
     span_parents |-> <<state.rootSpanId>>,
     created |-> ToISOString(start),
     input |-> OrUndefined(userMessage),
     metadata |-> [turn_number |-> turnNumber,
                   model |-> model.providerID \o "/" \o model.modelID],
     metrics |-> [start |-> start],
     span_attributes |-> [name |-> "Turn " \o NumberToString(turnNumber), type |-> "task"]]

\* variant: the child's root span hangs under the parent's root span
ChildSpanParents_Root(parentState) ==
    <<parentState.rootSpanId>>

\* span_parents of a child session's root span
ChildSpanParents(parentState) ==
    IF HasOpenTurn(parentState) THEN <<parentState.currentTurnSpanId>> ELSE <<>>

\* variant: the child's root span names the parent's own root span as the trace
ChildRootSpan_ParentRoot(rootSpanId, parentState, sessionID, parentSessionID, subagentTitle, start) ==
    [id |-> rootSpanId,
     span_id |-> rootSpanId,
     root_span_id |-> parentState.rootSpanId,
     span_parents |-> ChildSpanParents(parentState),
     created |-> ToISOString(start),
     metadata |-> [session_id |-> sessionID,
                   parent_session_id |-> parentSessionID,
                   is_subagent |-> TRUE],
     metrics |-> [start |-> start],
     span_attributes |-> [name |-> subagentTitle, type |-> "task"]]

ChildRootSpan(rootSpanId, parentState, sessionID, parentSessionID, subagentTitle, start) ==
    [id |-> rootSpanId,
     span_id |-> rootSpanId,
     root_span_id |-> parentState.effectiveRootSpanId,
     span_parents |-> ChildSpanParents(parentState),
     created |-> ToISOString(start),
     metadata |-> [session_id |-> sessionID,
                   parent_session_id |-> parentSessionID,
                   is_subagent |-> TRUE],
     metrics |-> [start |-> start],
     span_attributes |-> [name |-> subagentTitle, type |-> "task"]]

RootSpan(rootSpanId, sessionKey, start) ==
    [id |-> rootSpanId,
     span_id |-> rootSpanId,
     root_span_id |-> rootSpanId,
     created |-> ToISOString(start),
     metadata |-> [session_id |-> sessionKey,
                   workspace |-> config.worktree,
                   directory |-> config.directory],
     metrics |-> [start |-> start],
     span_attributes |-> [name |-> "OpenCode: " \o config.projectName, type |-> "task"]]
(***************************************************************************)
(* Delivery of one call.                                                   *)
(***************************************************************************)
Call(op, sessionID, arg) == [op |-> op, sessionID |-> sessionID, arg |-> arg]

CanDeliver == pc = "running" /\ Len(emitted) < host.maxSpans

Tagged(s, kind, span) == [session |-> s, kind |-> kind, span |-> span]

\* the lists of the records of which the sink persists some: the collector
\* persists every record, a write of the client may fail and persist nothing
Persisted(records) ==
    IF host.sink = "collector" THEN {records}
    ELSE {SelectAt(records, keep) : keep \in SUBSET (1..Len(records))}

\* variant: a record whose write failed is handed to insertSpan a second time
Emit_RetryFailed(records) ==
    \E kept \in Persisted(records) :
        /\ spans' = InsertAll(spans, kept)
        /\ emitted' = emitted \o records \o
                         SelectAt(records, {i \in 1..Len(records) :
                                               \A k \in 1..Len(kept) : kept[k] # records[i]})

\* await this.spanSink.insertSpan(record), for each record in turn; what
\* insertSpan returns is not looked at
Emit(records) ==
    /\ emitted' = emitted \o records
    /\ \E kept \in Persisted(records) : spans' = InsertAll(spans, kept)

NoEmit == UNCHANGED <<emitted, spans>>

\* the call returns having done nothing
Dropped == UNCHANGED <<sessionStates, emitted, spans, nextId>>

(***************************************************************************)
(* processChatMessage                                                      *)
(***************************************************************************)
ProcessChatMessage(sessionID, userMessage, model) ==
    /\ CanDeliver
    /\ lastCall' = Call("chat.message", sessionID, NoStr)
    /\ raised' = FALSE
    /\ UNCHANGED <<now, pc, host, suspended, hooks>>
    /\ IF ~HasState(sessionID)
       THEN Dropped
       ELSE LET state == sessionStates[sessionID]
                prevTurnSpan ==
                    IF HasOpenTurn(state)
                    THEN <<Tagged(sessionID, "turn.close", TurnCloseSpan(state, now, NoStr))>>
                    ELSE <<>>
                turnSpanId == nextId + 1
                turnNumber == state.turnNumber + 1
                turnSpan == TurnSpan(state, turnSpanId, turnNumber, userMessage, model, now)
            IN  /\ nextId' = nextId + 1
                /\ sessionStates' =
                       SetState(sessionID,
                                [state EXCEPT !.turnNumber = turnNumber,
                                              !.currentTurnSpanId = turnSpanId,
                                              !.currentOutput = NoStr,
                                              !.currentInput = userMessage,
                                              !.currentTurnStartTime = now])
                /\ Emit(prevTurnSpan \o <<Tagged(sessionID, "turn", turnSpan)>>)

(***************************************************************************)
(* processToolExecuteBefore, processToolExecuteAfter                       *)
(***************************************************************************)
\* variant: state.toolStartTimes.set(...) without the test of state, which is a
\* TypeError for a session that has no SessionState
ProcessToolExecuteBefore_NoGuard(sessionID, callID) ==
    /\ CanDeliver
    /\ lastCall' = Call("tool.execute.before", sessionID, NoStr)
    /\ UNCHANGED <<now, pc, host, suspended, hooks, emitted, spans, nextId>>
    /\ IF HasState(sessionID)
       THEN /\ raised' = FALSE
            /\ sessionStates' =
                   SetState(sessionID,
                            [sessionStates[sessionID] EXCEPT
                                 !.toolStartTimes = MapSet(@, callID, now)])
       ELSE /\ raised' = TRUE
            /\ UNCHANGED sessionStates

\* variant: the tool call is counted when it starts
ProcessToolExecuteBefore_Counts(sessionID, callID) ==
    /\ CanDeliver
    /\ lastCall' = Call("tool.execute.before", sessionID, NoStr)
    /\ raised' = FALSE
    /\ UNCHANGED <<now, pc, host, suspended, hooks, emitted, spans, nextId>>
    /\ IF HasState(sessionID)
       THEN sessionStates' =
                SetState(sessionID,
                         [sessionStates[sessionID] EXCEPT
                              !.toolCallCount = @ + 1,
                              !.toolStartTimes = MapSet(@, callID, now)])
       ELSE UNCHANGED sessionStates

ProcessToolExecuteBefore(sessionID, callID) ==
    /\ CanDeliver
    /\ lastCall' = Call("tool.execute.before", sessionID, NoStr)
    /\ raised' = FALSE
    /\ UNCHANGED <<now, pc, host, suspended, hooks, emitted, spans, nextId>>
    /\ IF HasState(sessionID)
       THEN sessionStates' =
                SetState(sessionID,
                         [sessionStates[sessionID] EXCEPT
                              !.toolStartTimes = MapSet(@, callID, now)])
       ELSE UNCHANGED sessionStates

MaxToolOutput == 10000

\* output.substring(0, 10000)
TruncateOutput(output) ==
    IF Len(output) > MaxToolOutput THEN SubSeq(output, 1, MaxToolOutput) ELSE output

\* variant: the guard forgets the open turn, if (!state) return
ToolAfterAccepted_StateOnly(sessionID) ==
    HasState(sessionID)

\* if (!state || !state.currentTurnSpanId) return
ToolAfterAccepted(sessionID) ==
    HasState(sessionID) /\ HasOpenTurn(sessionStates[sessionID])

ToolSpan(state, id, toolSpanId, callID, tool, title, output, metadata, reasoning, startTime, endTime) ==
    [id |-> id,
     span_id |-> toolSpanId,
     root_span_id |-> state.effectiveRootSpanId,
     span_parents |-> <<state.currentTurnSpanId>>,
     input |-> metadata,
     output |-> TruncateOutput(output),
     metadata |-> [tool_name |-> tool,
                   call_id |-> callID,
                   title |-> title,
                   reasoning |-> OrUndefined(reasoning)],
     metrics |-> [start |-> startTime, end |-> endTime],
     span_attributes |-> [name |-> FormatToolName(tool, title), type |-> "tool"]]

\* variant: the link from the call id to its message is left in place
ProcessToolExecuteAfter_KeepsLink(sessionID, callID, tool, title, output, metadata) ==
    /\ CanDeliver
    /\ lastCall' = Call("tool.execute.after", sessionID, NoStr)
    /\ raised' = FALSE
    /\ UNCHANGED <<now, pc, host, suspended, hooks>>
    /\ IF ~ToolAfterAccepted(sessionID)
       THEN Dropped
       ELSE LET state == sessionStates[sessionID]
                startTime == MapGetNum(state.toolStartTimes, callID)
                messageId == MapGetStr(state.toolCallMessageIds, callID)
                reasoning ==
                    IF messageId # NoStr /\ messageId # ""
                    THEN MapGetStr(state.llmReasoningParts, messageId)
                    ELSE NoStr
                toolSpanId == nextId + 1
                id == nextId + 2
                toolSpan == ToolSpan(state, id, toolSpanId, callID, tool, title, output,
                                     metadata, reasoning, startTime, now)
            IN  /\ nextId' = nextId + 2
                /\ sessionStates' =
                       SetState(sessionID,
                                [state EXCEPT
                                     !.toolCallCount = @ + 1,
                                     !.toolStartTimes = MapDelete(@, callID)])
                /\ Emit(<<Tagged(sessionID, "tool", toolSpan)>>)

ProcessToolExecuteAfter(sessionID, callID, tool, title, output, metadata) ==
    /\ CanDeliver
    /\ lastCall' = Call("tool.execute.after", sessionID, NoStr)
    /\ raised' = FALSE
    /\ UNCHANGED <<now, pc, host, suspended, hooks>>
    /\ IF ~ToolAfterAccepted(sessionID)
       THEN Dropped
       ELSE LET state == sessionStates[sessionID]
                startTime == MapGetNum(state.toolStartTimes, callID)
                messageId == MapGetStr(state.toolCallMessageIds, callID)
                reasoning ==
                    IF messageId # NoStr /\ messageId # ""
                    THEN MapGetStr(state.llmReasoningParts, messageId)
                    ELSE NoStr
                toolSpanId == nextId + 1
                id == nextId + 2
                toolSpan == ToolSpan(state, id, toolSpanId, callID, tool, title, output,
                                     metadata, reasoning, startTime, now)
            IN  /\ nextId' = nextId + 2
                /\ sessionStates' =
                       SetState(sessionID,
                                [state EXCEPT
                                     !.toolCallCount = @ + 1,
                                     !.toolStartTimes = MapDelete(@, callID),
                                     !.toolCallMessageIds = MapDelete(@, callID)])
                /\ Emit(<<Tagged(sessionID, "tool", toolSpan)>>)

(***************************************************************************)
(* handleSessionCreated                                                    *)
(***************************************************************************)
\* if (sessionID && parentSessionID) { ... if (parentState) { ... return } }
IsLinkedChild(sessionInfo) ==
    /\ sessionInfo.id # NoStr /\ sessionInfo.id # ""
    /\ sessionInfo.parentID # NoStr /\ sessionInfo.parentID # ""
    /\ HasState(sessionInfo.parentID)

HandleSessionCreated(sessionInfo) ==
    LET sessionID == sessionInfo.id
        parentSessionID == sessionInfo.parentID
        rootSpanId == nextId + 1
    IN  /\ CanDeliver
        /\ lastCall' = [op |-> "session.created", sessionID |-> sessionID,
                        arg |-> parentSessionID, title |-> sessionInfo.title]
        /\ raised' = FALSE
        /\ UNCHANGED <<now, pc, host, suspended, hooks>>
        /\ IF IsLinkedChild(sessionInfo)
           THEN LET parentState == sessionStates[parentSessionID]
                    subagentTitle == SubagentTitle(sessionInfo.title)
                    childState ==
                        NewSessionState(rootSpanId, parentState.effectiveRootSpanId, now,
                                        parentSessionID, parentState.effectiveRootSpanId,
                                        parentState.currentTurnSpanId, subagentTitle)
                    root_span == ChildRootSpan(rootSpanId, parentState, sessionID,
                                               parentSessionID, subagentTitle, now)
                IN  /\ nextId' = nextId + 1
                    /\ sessionStates' = SetState(sessionID, childState)
                    /\ Emit(<<Tagged(sessionID, "root", root_span)>>)
           ELSE IF sessionID = NoStr \/ sessionID = ""
           THEN Dropped
           ELSE LET state == NewSessionState(rootSpanId, rootSpanId, now,
                                             NoStr, NoId, NoId, NoStr)
                    root_span == RootSpan(rootSpanId, sessionID, now)
                IN  /\ nextId' = nextId + 1
                    /\ sessionStates' = SetState(sessionID, state)
                    /\ Emit(<<Tagged(sessionID, "root", root_span)>>)
(***************************************************************************)
(* handleMessagePartUpdated                                                *)
(***************************************************************************)
Truthy(x) == x # NoStr /\ x # ""

\* JSON.stringify(input)
JSONStringify(input) == <<"JSON", input>>

\* toolCalls with the entry for toolCall.id replaced, or toolCall pushed
UpsertToolCall(toolCalls, toolCall) ==
    IF \E i \in 1..Len(toolCalls) : toolCalls[i].id = toolCall.id
    THEN LET existingIndex == CHOOSE i \in 1..Len(toolCalls) :
                                  /\ toolCalls[i].id = toolCall.id
                                  /\ \A j \in 1..(i - 1) : toolCalls[j].id # toolCall.id
         IN  [toolCalls EXCEPT ![existingIndex] = toolCall]
    ELSE Append(toolCalls, toolCall)

\* variant: a text fragment is taken for the turn's output with or without the
\* end-of-stream marker
PartUpdate_AnyText(state, part) ==
    LET messageId == part.messageID
    IN  IF part.type = "text" /\ Truthy(part.text)
        THEN LET tracked ==
                     IF Truthy(messageId)
                     THEN [state EXCEPT !.llmOutputParts = MapSet(@, messageId, part.text)]
                     ELSE state
             IN  IF HasOpenTurn(state)
                 THEN [tracked EXCEPT !.currentOutput = part.text]
                 ELSE tracked
        ELSE IF part.type = "tool" /\ Truthy(messageId)
        THEN IF Truthy(part.callID) /\ Truthy(part.tool) /\ Truthy(part.input)
             THEN LET toolCalls ==
                          IF messageId \in DOMAIN state.llmToolCalls
                          THEN state.llmToolCalls[messageId]
                          ELSE <<>>
                      toolCall ==
                          [id |-> part.callID,
                           type |-> "function",
                           function |-> [name |-> part.tool,
                                         arguments |-> JSONStringify(part.input)]]
                  IN  [state EXCEPT
                           !.llmToolCalls = MapSet(@, messageId,
                                                   UpsertToolCall(toolCalls, toolCall)),
                           !.toolCallMessageIds = MapSet(@, part.callID, messageId)]
             ELSE state
        ELSE IF part.type = "reasoning" /\ Truthy(messageId)
        THEN IF Truthy(part.text)
             THEN [state EXCEPT !.llmReasoningParts = MapSet(@, messageId, part.text)]
             ELSE state
        ELSE state

PartUpdate(state, part) ==
    LET messageId == part.messageID
    IN  IF part.type = "text" /\ Truthy(part.text)
        THEN LET tracked ==
                     IF Truthy(messageId)
                     THEN [state EXCEPT !.llmOutputParts = MapSet(@, messageId, part.text)]
                     ELSE state
             IN  IF part.timeEnd /\ HasOpenTurn(state)
                 THEN [tracked EXCEPT !.currentOutput = part.text]
                 ELSE tracked
        ELSE IF part.type = "tool" /\ Truthy(messageId)
        THEN IF Truthy(part.callID) /\ Truthy(part.tool) /\ Truthy(part.input)
             THEN LET toolCalls ==
                          IF messageId \in DOMAIN state.llmToolCalls
                          THEN state.llmToolCalls[messageId]
                          ELSE <<>>
                      toolCall ==
                          [id |-> part.callID,
                           type |-> "function",
                           function |-> [name |-> part.tool,
                                         arguments |-> JSONStringify(part.input)]]
                  IN  [state EXCEPT
                           !.llmToolCalls = MapSet(@, messageId,
                                                   UpsertToolCall(toolCalls, toolCall)),
                           !.toolCallMessageIds = MapSet(@, part.callID, messageId)]
             ELSE state
        ELSE IF part.type = "reasoning" /\ Truthy(messageId)
        THEN IF Truthy(part.text)
             THEN [state EXCEPT !.llmReasoningParts = MapSet(@, messageId, part.text)]
             ELSE state
        ELSE state

HandleMessagePartUpdated(part) ==
    /\ CanDeliver
    /\ lastCall' = Call("message.part.updated", part.sessionID, part)
    /\ raised' = FALSE
    /\ UNCHANGED <<now, pc, host, suspended, hooks, emitted, spans, nextId>>
    /\ IF ~Truthy(part.sessionID) \/ ~HasState(part.sessionID)
       THEN UNCHANGED sessionStates
       ELSE sessionStates' =
                SetState(part.sessionID, PartUpdate(sessionStates[part.sessionID], part))

(***************************************************************************)
(* handleMessageUpdated                                                    *)
(***************************************************************************)
NumberOrZero(x) == IF x = NoNum THEN 0 ELSE x

\* variant: the guards without the test of the open turn
MessageAccepted_NoTurnCheck(messageInfo) ==
    /\ messageInfo.role = "assistant"
    /\ Truthy(messageInfo.sessionID) /\ Truthy(messageInfo.id)
    /\ HasState(messageInfo.sessionID)
    /\ messageInfo.time.completed # NoNum /\ messageInfo.time.completed # 0
    /\ messageInfo.id \notin sessionStates[messageInfo.sessionID].processedLlmMessages

\* the guards of lines 994-1031, in order: every one is an early return
MessageAccepted(messageInfo) ==
    /\ messageInfo.role = "assistant"
    /\ Truthy(messageInfo.sessionID) /\ Truthy(messageInfo.id)
    /\ HasState(messageInfo.sessionID)
    /\ messageInfo.time.completed # NoNum /\ messageInfo.time.completed # 0
    /\ messageInfo.id \notin sessionStates[messageInfo.sessionID].processedLlmMessages
    /\ HasOpenTurn(sessionStates[messageInfo.sessionID])

\* variant: the reasoning is left out of the payload
AssistantMessage_NoReasoning(state, messageId) ==
    LET outputText == IF Truthy(MapGetStr(state.llmOutputParts, messageId))
                      THEN state.llmOutputParts[messageId] ELSE ""
        reasoningText == MapGetStr(state.llmReasoningParts, messageId)
        base == [role |-> "assistant", content |-> outputText]
        withCalls ==
            IF messageId \in DOMAIN state.llmToolCalls /\ Len(state.llmToolCalls[messageId]) > 0
            THEN Spread(base, [tool_calls |-> state.llmToolCalls[messageId]])
            ELSE base
    IN  IF FALSE
        THEN Spread(withCalls,
                    [reasoning |-> <<[id |-> "reasoning", content |-> reasoningText]>>])
        ELSE withCalls

AssistantMessage(state, messageId) ==
    LET outputText == IF Truthy(MapGetStr(state.llmOutputParts, messageId))
                      THEN state.llmOutputParts[messageId] ELSE ""
        reasoningText == MapGetStr(state.llmReasoningParts, messageId)
        base == [role |-> "assistant", content |-> outputText]
        withCalls ==
            IF messageId \in DOMAIN state.llmToolCalls /\ Len(state.llmToolCalls[messageId]) > 0
            THEN Spread(base, [tool_calls |-> state.llmToolCalls[messageId]])
            ELSE base
    IN  IF Truthy(reasoningText)
        THEN Spread(withCalls,
                    [reasoning |-> <<[id |-> "reasoning", content |-> reasoningText]>>])
        ELSE withCalls

\* input: llmInput.length > 0 ? llmInput : undefined  (<<>> stands for undefined)
LlmInput(state) ==
    IF Truthy(state.currentInput)
    THEN <<[role |-> "user", content |-> state.currentInput]>>
    ELSE <<>>

\* variant: the reasoning tokens are left out of the total
LlmSpan_NoReasoning(state, llmSpanId, messageInfo) ==
    LET inputTokens == NumberOrZero(messageInfo.tokens.input)
        outputTokens == NumberOrZero(messageInfo.tokens.output)
        reasoningTokens == NumberOrZero(messageInfo.tokens.reasoning)
        totalTokens == inputTokens + outputTokens
        providerID == IF Truthy(messageInfo.providerID) THEN messageInfo.providerID ELSE "unknown"
        modelID == IF Truthy(messageInfo.modelID) THEN messageInfo.modelID ELSE "unknown"
        modelName == providerID \o "/" \o modelID
    IN  [id |-> llmSpanId,
         span_id |-> llmSpanId,
         root_span_id |-> state.effectiveRootSpanId,
         span_parents |-> <<state.currentTurnSpanId>>,
         created |-> ToISOString(messageInfo.time.created),
         input |-> LlmInput(state),
         output |-> <<AssistantMessage(state, messageInfo.id)>>,
         metrics |-> [start |-> messageInfo.time.created,
                      end |-> messageInfo.time.completed,
                      prompt_tokens |-> inputTokens,
                      completion_tokens |-> outputTokens,
                      tokens |-> totalTokens,
                      reasoning_tokens |-> IF reasoningTokens = 0 THEN NoNum
                                           ELSE reasoningTokens],
         metadata |-> [model |-> modelName,
                       provider |-> providerID,
                       message_id |-> messageInfo.id],
         span_attributes |-> [name |-> modelName, type |-> "llm"]]

\* variant: the span starts at the clock's reading, not at the message's creation
LlmSpan_ClockStart(state, llmSpanId, messageInfo) ==
    LET inputTokens == NumberOrZero(messageInfo.tokens.input)
        outputTokens == NumberOrZero(messageInfo.tokens.output)
        reasoningTokens == NumberOrZero(messageInfo.tokens.reasoning)
        totalTokens == inputTokens + outputTokens + reasoningTokens
        providerID == IF Truthy(messageInfo.providerID) THEN messageInfo.providerID ELSE "unknown"
        modelID == IF Truthy(messageInfo.modelID) THEN messageInfo.modelID ELSE "unknown"
        modelName == providerID \o "/" \o modelID
    IN  [id |-> llmSpanId,
         span_id |-> llmSpanId,
         root_span_id |-> state.effectiveRootSpanId,
         span_parents |-> <<state.currentTurnSpanId>>,
         created |-> ToISOString(messageInfo.time.created),
         input |-> LlmInput(state),
         output |-> <<AssistantMessage(state, messageInfo.id)>>,
         metrics |-> [start |-> now,
                      end |-> messageInfo.time.completed,
                      prompt_tokens |-> inputTokens,
                      completion_tokens |-> outputTokens,
                      tokens |-> totalTokens,
                      reasoning_tokens |-> IF reasoningTokens = 0 THEN NoNum
                                           ELSE reasoningTokens],
         metadata |-> [model |-> modelName,
                       provider |-> providerID,
                       message_id |-> messageInfo.id],
         span_attributes |-> [name |-> modelName, type |-> "llm"]]

LlmSpan(state, llmSpanId, messageInfo) ==
    LET inputTokens == NumberOrZero(messageInfo.tokens.input)
        outputTokens == NumberOrZero(messageInfo.tokens.output)
        reasoningTokens == NumberOrZero(messageInfo.tokens.reasoning)
        totalTokens == inputTokens + outputTokens + reasoningTokens
        providerID == IF Truthy(messageInfo.providerID) THEN messageInfo.providerID ELSE "unknown"
        modelID == IF Truthy(messageInfo.modelID) THEN messageInfo.modelID ELSE "unknown"
        modelName == providerID \o "/" \o modelID
    IN  [id |-> llmSpanId,
         span_id |-> llmSpanId,
         root_span_id |-> state.effectiveRootSpanId,
         span_parents |-> <<state.currentTurnSpanId>>,
         created |-> ToISOString(messageInfo.time.created),
         input |-> LlmInput(state),
         output |-> <<AssistantMessage(state, messageInfo.id)>>,
         metrics |-> [start |-> messageInfo.time.created,
                      end |-> messageInfo.time.completed,
                      prompt_tokens |-> inputTokens,
                      completion_tokens |-> outputTokens,
                      tokens |-> totalTokens,
                      reasoning_tokens |-> IF reasoningTokens = 0 THEN NoNum
                                           ELSE reasoningTokens],
         metadata |-> [model |-> modelName,
                       provider |-> providerID,
                       message_id |-> messageInfo.id],
         span_attributes |-> [name |-> modelName, type |-> "llm"]]

HandleMessageUpdated(messageInfo) ==
    LET sessionID == messageInfo.sessionID
    IN  /\ CanDeliver
        /\ lastCall' = Call("message.updated", sessionID,
                            [role |-> messageInfo.role, id |-> messageInfo.id,
                             time |-> messageInfo.time, tokens |-> messageInfo.tokens])
        /\ UNCHANGED <<now, pc, host, suspended, hooks>>
        /\ IF ~MessageAccepted(messageInfo)
           THEN raised' = FALSE /\ Dropped
           ELSE LET state == sessionStates[sessionID]
                    marked == [state EXCEPT !.processedLlmMessages = @ \cup {messageInfo.id}]
                    llmSpanId == nextId + 1
                IN  /\ sessionStates' = SetState(sessionID, marked)
                    /\ nextId' = nextId + 1
                    /\ IF messageInfo.time.created = NoNum
                       THEN \* new Date(undefined).toISOString() throws a RangeError
                            raised' = TRUE /\ NoEmit
                       ELSE /\ raised' = FALSE
                            /\ Emit(<<Tagged(sessionID, "llm",
                                             LlmSpan(state, llmSpanId, messageInfo))>>)
(***************************************************************************)
(* handleSessionIdle                                                       *)
(***************************************************************************)
\* variant: the closing merge of the turn is emitted whether a turn is open or not
HandleSessionIdle_ClosesAnyway(sessionID) ==
    /\ CanDeliver
    /\ lastCall' = Call("session.idle", sessionID, NoStr)
    /\ raised' = FALSE
    /\ UNCHANGED <<now, pc, host, suspended, hooks, nextId>>
    /\ IF ~Truthy(sessionID) \/ ~HasState(sessionID)
       THEN UNCHANGED <<sessionStates, emitted, spans>>
       ELSE LET state == sessionStates[sessionID]
                isChildSession == IsChildSession(state)
                turnSpan ==
                    <<Tagged(sessionID, "turn.close", TurnCloseSpan(state, now, NoStr))>>
                idled ==
                    IF HasOpenTurn(state)
                    THEN [state EXCEPT !.currentTurnSpanId = NoId,
                                       !.currentInput = NoStr,
                                       !.currentOutput = NoStr,
                                       !.currentTurnStartTime = NoNum]
                    ELSE state
            IN  IF isChildSession /\ state.rootSpanId # NoId
                THEN /\ Emit(turnSpan \o
                             <<Tagged(sessionID, "root.close",
                                      RootCloseSpan(idled, now, NoStr, NoStr))>>)
                     /\ sessionStates' = DeleteState(sessionID)
                ELSE /\ Emit(turnSpan)
                     /\ sessionStates' = SetState(sessionID, idled)

\* variant: the turn is closed and stays the session's current turn
HandleSessionIdle_KeepsTurn(sessionID) ==
    /\ CanDeliver
    /\ lastCall' = Call("session.idle", sessionID, NoStr)
    /\ raised' = FALSE
    /\ UNCHANGED <<now, pc, host, suspended, hooks, nextId>>
    /\ IF ~Truthy(sessionID) \/ ~HasState(sessionID)
       THEN UNCHANGED <<sessionStates, emitted, spans>>
       ELSE LET state == sessionStates[sessionID]
                isChildSession == IsChildSession(state)
                turnSpan ==
                    IF HasOpenTurn(state)
                    THEN <<Tagged(sessionID, "turn.close", TurnCloseSpan(state, now, NoStr))>>
                    ELSE <<>>
                idled == state
            IN  IF isChildSession /\ state.rootSpanId # NoId
                THEN /\ Emit(turnSpan \o
                             <<Tagged(sessionID, "root.close",
                                      RootCloseSpan(idled, now, NoStr, NoStr))>>)
                     /\ sessionStates' = DeleteState(sessionID)
                ELSE /\ Emit(turnSpan)
                     /\ sessionStates' = SetState(sessionID, idled)

HandleSessionIdle(sessionID) ==
    /\ CanDeliver
    /\ lastCall' = Call("session.idle", sessionID, NoStr)
    /\ raised' = FALSE
    /\ UNCHANGED <<now, pc, host, suspended, hooks, nextId>>
    /\ IF ~Truthy(sessionID) \/ ~HasState(sessionID)
       THEN UNCHANGED <<sessionStates, emitted, spans>>
       ELSE LET state == sessionStates[sessionID]
                isChildSession == IsChildSession(state)
                turnSpan ==
                    IF HasOpenTurn(state)
                    THEN <<Tagged(sessionID, "turn.close", TurnCloseSpan(state, now, NoStr))>>
                    ELSE <<>>
                idled ==
                    IF HasOpenTurn(state)
                    THEN [state EXCEPT !.currentTurnSpanId = NoId,
                                       !.currentInput = NoStr,
                                       !.currentOutput = NoStr,
                                       !.currentTurnStartTime = NoNum]
                    ELSE state
            IN  IF isChildSession /\ state.rootSpanId # NoId
                THEN /\ Emit(turnSpan \o
                             <<Tagged(sessionID, "root.close",
                                      RootCloseSpan(idled, now, NoStr, NoStr))>>)
                     /\ sessionStates' = DeleteState(sessionID)
                ELSE /\ Emit(turnSpan)
                     /\ sessionStates' = SetState(sessionID, idled)

(***************************************************************************)
(* handleSessionDeleted                                                    *)
(***************************************************************************)
\* variant: the states of the session's children are dropped with its own
HandleSessionDeleted_Cascade(sessionID) ==
    /\ CanDeliver
    /\ lastCall' = Call("session.deleted", sessionID, NoStr)
    /\ raised' = FALSE
    /\ UNCHANGED <<now, pc, host, suspended, hooks, nextId>>
    /\ IF ~Truthy(sessionID) \/ ~HasState(sessionID)
       THEN UNCHANGED <<sessionStates, emitted, spans>>
       ELSE LET state == sessionStates[sessionID]
                turnSpan ==
                    IF HasOpenTurn(state)
                    THEN <<Tagged(sessionID, "turn.close", TurnCloseSpan(state, now, NoStr))>>
                    ELSE <<>>
            IN  /\ Emit(turnSpan \o
                        <<Tagged(sessionID, "root.close",
                                 RootCloseSpan(state, now, NoStr, NoStr))>>)
                /\ sessionStates' =
                       [x \in {y \in DOMAIN sessionStates :
                                  /\ y # sessionID
                                  /\ sessionStates[y].parentSessionId # sessionID} |->
                           sessionStates[x]]

\* variant: the root span is closed before the open turn
HandleSessionDeleted_RootFirst(sessionID) ==
    /\ CanDeliver
    /\ lastCall' = Call("session.deleted", sessionID, NoStr)
    /\ raised' = FALSE
    /\ UNCHANGED <<now, pc, host, suspended, hooks, nextId>>
    /\ IF ~Truthy(sessionID) \/ ~HasState(sessionID)
       THEN UNCHANGED <<sessionStates, emitted, spans>>
       ELSE LET state == sessionStates[sessionID]
                turnSpan ==
                    IF HasOpenTurn(state)
                    THEN <<Tagged(sessionID, "turn.close", TurnCloseSpan(state, now, NoStr))>>
                    ELSE <<>>
            IN  /\ Emit(<<Tagged(sessionID, "root.close",
                                 RootCloseSpan(state, now, NoStr, NoStr))>>
                        \o turnSpan)
                /\ sessionStates' = DeleteState(sessionID)

HandleSessionDeleted(sessionID) ==
    /\ CanDeliver
    /\ lastCall' = Call("session.deleted", sessionID, NoStr)
    /\ raised' = FALSE
    /\ UNCHANGED <<now, pc, host, suspended, hooks, nextId>>
    /\ IF ~Truthy(sessionID) \/ ~HasState(sessionID)
       THEN UNCHANGED <<sessionStates, emitted, spans>>
       ELSE LET state == sessionStates[sessionID]
                turnSpan ==
                    IF HasOpenTurn(state)
                    THEN <<Tagged(sessionID, "turn.close", TurnCloseSpan(state, now, NoStr))>>
                    ELSE <<>>
            IN  /\ Emit(turnSpan \o
                        <<Tagged(sessionID, "root.close",
                                 RootCloseSpan(state, now, NoStr, NoStr))>>)
                /\ sessionStates' = DeleteState(sessionID)

(***************************************************************************)
(* handleSessionError                                                      *)
(***************************************************************************)
ErrorName(errorObj) == IF Truthy(errorObj.name) THEN errorObj.name ELSE "UnknownError"

\* variant: the message defaults to "UnknownError", not to the name
ErrorMessage_UnknownDefault(errorObj) ==
    IF Truthy(errorObj.message) THEN errorObj.message ELSE "UnknownError"

ErrorMessage(errorObj) ==
    IF Truthy(errorObj.message) THEN errorObj.message ELSE ErrorName(errorObj)

ErrorString(errorObj) == ErrorMessage(errorObj) \o "\n\ntype: " \o ErrorName(errorObj)

HandleSessionError(sessionID, errorObj) ==
    /\ CanDeliver
    /\ lastCall' = Call("session.error", sessionID, errorObj)
    /\ raised' = FALSE
    /\ UNCHANGED <<now, pc, host, suspended, hooks, nextId>>
    /\ IF ~Truthy(sessionID) \/ ~HasState(sessionID)
       THEN UNCHANGED <<sessionStates, emitted, spans>>
       ELSE LET state == sessionStates[sessionID]
                errorString == ErrorString(errorObj)
                turnSpan ==
                    IF HasOpenTurn(state)
                    THEN <<Tagged(sessionID, "turn.close",
                                  TurnCloseSpan(state, now, errorString))>>
                    ELSE <<>>
            IN  /\ Emit(turnSpan \o
                        <<Tagged(sessionID, "root.close",
                                 RootCloseSpan(state, now, errorString,
                                               ErrorName(errorObj)))>>)
                /\ sessionStates' = DeleteState(sessionID)

(***************************************************************************)
(* The clock, and the driver that feeds the processor.                     *)
(***************************************************************************)
\* TestClock.tick(): time passes between two calls
ClockTick ==
    /\ pc = "running"
    /\ now < MaxTime
    /\ now' = now + 1
    /\ lastCall' = Call("clock.tick", NoStr, NoStr)
    /\ raised' = FALSE
    /\ UNCHANGED <<sessionStates, emitted, spans, nextId, pc, host, suspended, hooks>>

\* eventsToTree: the items are exhausted and the collected spans are returned
DriverReturn ==
    /\ pc = "running"
    /\ pc' = "returned"
    /\ UNCHANGED <<sessionStates, emitted, spans, nextId, now, lastCall, raised, host, suspended, hooks>>

(***************************************************************************)
(* The events and hook calls a host can deliver.                           *)
(***************************************************************************)
\* createTracingHooks has been called and no hook of it yet
NoHooks ==
    [sessionStates |-> EmptyMap, emitted |-> <<>>, nextId |-> 0, item |-> [op |-> "none"]]

SessionInfos ==
    {info \in [id : SessionIds, parentID : SessionIds \cup {NoStr, UnknownSession},
               title : SessionTitles] :
        info.parentID \in ParentRefs(info.id)}

TextParts ==
    [type : {"text"}, sessionID : SessionIds, messageID : MessageIds, text : PartTexts,
     timeEnd : BOOLEAN, callID : {NoStr}, tool : {NoStr}, input : {NoStr}]

ToolParts ==
    [type : {"tool"}, sessionID : SessionIds, messageID : MessageIds, text : {NoStr},
     timeEnd : {FALSE}, callID : CallIds, tool : ToolNames, input : ToolInputs]

ReasoningParts ==
    [type : {"reasoning"}, sessionID : SessionIds, messageID : MessageIds,
     text : ReasoningTexts, timeEnd : {FALSE}, callID : {NoStr}, tool : {NoStr},
     input : {NoStr}]

MessageTimes ==
    {[created |-> 1, completed |-> 2],
     [created |-> 1, completed |-> NoNum],
     [created |-> NoNum, completed |-> 2]}

\* a message of the user carries no completion time
MessageUpdates ==
    {m \in [role : Roles, sessionID : SessionIds, id : MessageIds, time : MessageTimes,
            providerID : {"anthropic"}, modelID : {"claude-3-haiku"},
            tokens : {[input |-> 10, output |-> 5, reasoning |-> NoNum]}] :
        m.role = "user" => m.time.completed = NoNum}

Init ==
    /\ sessionStates = EmptyMap
    /\ emitted = <<>>
    /\ spans = <<>>
    /\ nextId = 0
    /\ now = 1
    /\ lastCall = Call("none", NoStr, NoStr)
    /\ raised = FALSE
    /\ pc = "running"
    /\ host \in Hosts
    /\ suspended = <<>>
    /\ hooks = NoHooks

InitTimed ==
    /\ sessionStates = EmptyMap
    /\ emitted = <<>>
    /\ spans = <<>>
    /\ nextId = 0
    /\ now = 1
    /\ lastCall = Call("none", NoStr, NoStr)
    /\ raised = FALSE
    /\ pc = "running"
    /\ host \in TimedHosts
    /\ suspended = <<>>
    /\ hooks = NoHooks

SessionCreatedEvent ==
    \E info \in SessionInfos,
       title \in (IF "subagents" \in host.feeds THEN VariedSessionTitles ELSE SessionTitles) :
        /\ info.id \in host.sessions
        /\ HandleSessionCreated([info EXCEPT !.title = title])
\* the fragments a host delivers
Fragments ==
    LET ids == IF "messages" \in host.feeds THEN VariedMessageIds ELSE MessageIds
        texts == IF "texts" \in host.feeds THEN VariedPartTexts ELSE PartTexts
    IN  {p \in [type : {"text"}, sessionID : SessionIds, messageID : ids, text : texts,
                timeEnd : BOOLEAN, callID : {NoStr}, tool : {NoStr}, input : {NoStr}] :
            "texts" \in host.feeds \/ ("reasoning" \notin host.feeds /\ "calls" \notin host.feeds)}
        \cup (IF "reasoning" \in host.feeds
              THEN [type : {"reasoning"}, sessionID : SessionIds, messageID : ids,
                    text : VariedReasoningTexts, timeEnd : {FALSE}, callID : {NoStr},
                    tool : {NoStr}, input : {NoStr}]
              ELSE {})
        \cup (IF "calls" \in host.feeds
              THEN [type : {"tool"}, sessionID : SessionIds, messageID : ids, text : {NoStr},
                    timeEnd : {FALSE}, callID : CallIds, tool : ToolNames,
                    input : VariedToolInputs]
              ELSE {})

MessagePartUpdatedEvent ==
    /\ "parts" \in host.feeds
    /\ \E part \in Fragments :
           part.sessionID \in host.sessions /\ HandleMessagePartUpdated(part)
\* the token counts of a message; NoNum: the count is missing
TokenCounts ==
    IF "tokens" \in host.feeds
    THEN [input : {10, NoNum}, output : {5, NoNum}, reasoning : {3, 0, NoNum}]
    ELSE {[input |-> 10, output |-> 5, reasoning |-> NoNum]}

MessageUpdatedEvent ==
    \E info \in MessageUpdates, tokens \in TokenCounts,
       id \in (IF "messages" \in host.feeds THEN VariedMessageIds ELSE MessageIds) :
        /\ info.sessionID \in host.sessions
        /\ HandleMessageUpdated([info EXCEPT !.tokens = tokens, !.id = id])
SessionIdleEvent == \E s \in host.sessions : HandleSessionIdle(s)
SessionDeletedEvent == \E s \in host.sessions : HandleSessionDeleted(s)
SessionErrorEvent == \E s \in host.sessions, e \in SessionErrors : HandleSessionError(s, e)
ChatMessageHook ==
    \E s \in host.sessions, m \in UserMessages, model \in ChatModels :
        ProcessChatMessage(s, m, model)
ToolExecuteBeforeHook ==
    /\ "tools" \in host.feeds
    /\ \E s \in host.sessions, c \in CallIds : ProcessToolExecuteBefore(s, c)
ToolExecuteAfterHook ==
    /\ "tools" \in host.feeds
    /\ \E s \in host.sessions, c \in CallIds,
          tool \in (IF "titles" \in host.feeds THEN VariedToolNames ELSE ToolNames),
          title \in (IF "titles" \in host.feeds THEN VariedToolTitles ELSE ToolTitles),
          output \in ToolOutputs, metadata \in ToolInputs :
           ProcessToolExecuteAfter(s, c, tool, title, output, metadata)

Next ==
    \/ SessionCreatedEvent
    \/ MessagePartUpdatedEvent
    \/ MessageUpdatedEvent
    \/ SessionIdleEvent
    \/ SessionDeletedEvent
    \/ SessionErrorEvent
    \/ ChatMessageHook
    \/ ToolExecuteBeforeHook
    \/ ToolExecuteAfterHook

TimedNext ==
    \/ Next
    \/ ClockTick
    \/ DriverReturn

Spec == Init /\ [][Next]_vars

SpecTimed == InitTimed /\ [][TimedNext]_vars

InitLossy ==
    /\ sessionStates = EmptyMap
    /\ emitted = <<>>
    /\ spans = <<>>
    /\ nextId = 0
    /\ now = 1
    /\ lastCall = Call("none", NoStr, NoStr)
    /\ raised = FALSE
    /\ pc = "running"
    /\ host \in LossyHosts
    /\ suspended = <<>>
    /\ hooks = NoHooks

SpecLossy == InitLossy /\ [][Next]_vars

InitFragments ==
    /\ sessionStates = EmptyMap
    /\ emitted = <<>>
    /\ spans = <<>>
    /\ nextId = 0
    /\ now = 1
    /\ lastCall = Call("none", NoStr, NoStr)
    /\ raised = FALSE
    /\ pc = "running"
    /\ host \in FragmentHosts
    /\ suspended = <<>>
    /\ hooks = NoHooks

SpecFragments == InitFragments /\ [][Next]_vars

InitStreamed ==
    /\ sessionStates = EmptyMap
    /\ emitted = <<>>
    /\ spans = <<>>
    /\ nextId = 0
    /\ now = 1
    /\ lastCall = Call("none", NoStr, NoStr)
    /\ raised = FALSE
    /\ pc = "running"
    /\ host \in StreamedHosts
    /\ suspended = <<>>
    /\ hooks = NoHooks

\* the calls of a host that runs no tools
StreamedNext ==
    \/ SessionCreatedEvent
    \/ MessagePartUpdatedEvent
    \/ MessageUpdatedEvent
    \/ SessionIdleEvent
    \/ SessionDeletedEvent
    \/ SessionErrorEvent
    \/ ChatMessageHook
    \/ ClockTick

SpecStreamed == InitStreamed /\ [][StreamedNext]_vars

(***************************************************************************)
(* The collector and spansToTree on their own: any caller may insert any   *)
(* record.  A span's parent carries a smaller id than the span, as ids are *)
(* handed out in the order of creation, or the span's own id.              *)
(***************************************************************************)
SinkMetrics == {[start |-> 1], [start |-> 2], [end |-> 2]}

SinkFresh ==
    {[span_id |-> 1, metrics |-> m, metadata |-> [a |-> 1]] : m \in SinkMetrics}
    \cup {[span_id |-> 2, span_parents |-> <<1>>, metrics |-> m, metadata |-> [a |-> 1]] :
             m \in SinkMetrics}
    \cup {[span_id |-> 3, span_parents |-> p, metrics |-> [start |-> 1],
            metadata |-> [a |-> 1]] : p \in {<<1>>, <<2>>, <<1, 2>>}}
    \cup {[span_id |-> 2, span_parents |-> <<2>>, metrics |-> [start |-> 1],
            metadata |-> [a |-> 1]]}

SinkMerges ==
    {[span_id |-> i, _is_merge |-> TRUE, metrics |-> [end |-> 3]] : i \in {1, 2}}
    \cup {[span_id |-> i, _is_merge |-> TRUE, metrics |-> [end |-> 3],
           metadata |-> [b |-> 1]] : i \in {1, 2}}
    \cup {[span_id |-> i, _is_merge |-> TRUE, metrics |-> [start |-> 0, end |-> 3],
           metadata |-> [a |-> 2]] : i \in {1, 2}}

SinkSpans == SinkFresh \cup SinkMerges

SinkHost == [sessions |-> {}, maxSpans |-> MaxStored, feeds |-> {}, sink |-> "collector"]

InitSink ==
    /\ sessionStates = EmptyMap
    /\ emitted = <<>>
    /\ spans = <<>>
    /\ nextId = 0
    /\ now = 1
    /\ lastCall = [op |-> "none", sessionID |-> NoStr, arg |-> NoStr, returned |-> NoId]
    /\ raised = FALSE
    /\ pc = "running"
    /\ host = SinkHost
    /\ suspended = <<>>
    /\ hooks = NoHooks

\* collector.insertSpan(span)
SinkInsertSpan ==
    \E span \in SinkSpans :
        /\ Len(InsertSpan(spans, span)) <= host.maxSpans
        /\ spans' = InsertSpan(spans, span)
        /\ lastCall' = [op |-> "insertSpan", sessionID |-> NoStr, arg |-> NoStr,
                        returned |-> InsertSpanReturn(spans, span)]
        /\ raised' = FALSE
        /\ UNCHANGED <<sessionStates, emitted, nextId, now, pc, host, suspended, hooks>>

\* variant: the list handed in is sorted in place before the tree is built
SinkSpansToTree_SortsInput ==
    LET order == SortChildren(spans, 1..Len(spans))
        sorted == [i \in 1..Len(spans) |-> spans[order[i]]]
    IN  /\ lastCall' = [op |-> "spansToTree", sessionID |-> NoStr, arg |-> NoStr,
                        returned |-> SpansToTree(spans)]
        /\ raised' = FALSE
        /\ spans' = sorted
        /\ UNCHANGED <<sessionStates, emitted, nextId, now, pc, host, suspended, hooks>>

\* spansToTree(collector.getSpans())
SinkSpansToTree ==
    /\ lastCall' = [op |-> "spansToTree", sessionID |-> NoStr, arg |-> NoStr,
                    returned |-> SpansToTree(spans)]
    /\ raised' = FALSE
    /\ UNCHANGED <<sessionStates, emitted, spans, nextId, now, pc, host, suspended, hooks>>

SinkNext ==
    \/ SinkInsertSpan
    \/ SinkSpansToTree

SpecSink == InitSink /\ [][SinkNext]_vars

(***************************************************************************)
(* Handler executions that interleave.  A handler runs from its start to   *)
(* its first await of spanSink.insertSpan, hands the record to the sink    *)
(* and is suspended; it runs on from there when it is resumed.  The host   *)
(* of SpecInterleaved starts a chat.message hook, a session.idle event or  *)
(* a message.updated event while earlier calls are suspended; it delivers  *)
(* session.created and session.deleted when no call is suspended, so the   *)
(* SessionState a suspended handler holds is the one of its session.       *)
(***************************************************************************)
Suspension(handler, at, sessionID, closed, arg) ==
    [handler |-> handler, at |-> at, sessionID |-> sessionID, closed |-> closed, arg |-> arg]

\* suspended without its i-th element
RemoveAt(s, i) == SubSeq(s, 1, i - 1) \o SubSeq(s, i + 1, Len(s))

CanStart ==
    pc = "running" /\ Len(emitted) < host.maxSpans /\ Len(suspended) < MaxSuspended

\* processChatMessage from "Create new turn span" to the await of the insert
OpenTurn(sessionID, userMessage, model) ==
    LET state == sessionStates[sessionID]
        turnSpanId == nextId + 1
        turnNumber == state.turnNumber + 1
        turnSpan == TurnSpan(state, turnSpanId, turnNumber, userMessage, model, now)
    IN  /\ nextId' = nextId + 1
        /\ sessionStates' =
               SetState(sessionID,
                        [state EXCEPT !.turnNumber = turnNumber,
                                      !.currentTurnSpanId = turnSpanId,
                                      !.currentOutput = NoStr,
                                      !.currentInput = userMessage,
                                      !.currentTurnStartTime = now])
        /\ Emit(<<Tagged(sessionID, "turn", turnSpan)>>)

\* variant: the hook opens the new turn without closing the turn that is open
ChatMessageSteps_LeavesTurn(sessionID, userMessage, model) ==
    \/ /\ CanStart
       /\ lastCall' = Call("chat.message", sessionID, NoStr)
       /\ raised' = FALSE
       /\ UNCHANGED <<now, pc, host, hooks>>
       /\ IF ~HasState(sessionID)
          THEN Dropped /\ UNCHANGED suspended
          ELSE /\ OpenTurn(sessionID, userMessage, model)
               /\ suspended' =
                      Append(suspended,
                             Suspension("chat", "turnInserted", sessionID, NoId,
                                        [userMessage |-> userMessage, model |-> model]))
    \/ \E i \in 1..Len(suspended) :
           LET k == suspended[i]
           IN  /\ k.handler = "chat" /\ k.sessionID = sessionID
               /\ k.arg = [userMessage |-> userMessage, model |-> model]
               /\ lastCall' = Call("resume", sessionID, k)
               /\ raised' = FALSE
               /\ UNCHANGED <<now, pc, host, hooks>>
               /\ Dropped
               /\ suspended' = RemoveAt(suspended, i)

\* processChatMessage, in the steps between its awaits
ChatMessageSteps(sessionID, userMessage, model) ==
    \/ /\ CanStart
       /\ lastCall' = Call("chat.message", sessionID, NoStr)
       /\ raised' = FALSE
       /\ UNCHANGED <<now, pc, host, hooks>>
       /\ IF ~HasState(sessionID)
          THEN Dropped /\ UNCHANGED suspended
          ELSE IF HasOpenTurn(sessionStates[sessionID])
          THEN LET state == sessionStates[sessionID]
               IN  /\ Emit(<<Tagged(sessionID, "turn.close",
                                    TurnCloseSpan(state, now, NoStr))>>)
                   /\ UNCHANGED <<sessionStates, nextId>>
                   /\ suspended' =
                          Append(suspended,
                                 Suspension("chat", "prevTurnInserted", sessionID,
                                            state.currentTurnSpanId,
                                            [userMessage |-> userMessage, model |-> model]))
          ELSE /\ OpenTurn(sessionID, userMessage, model)
               /\ suspended' =
                      Append(suspended,
                             Suspension("chat", "turnInserted", sessionID, NoId,
                                        [userMessage |-> userMessage, model |-> model]))
    \/ \E i \in 1..Len(suspended) :
           LET k == suspended[i]
           IN  /\ k.handler = "chat" /\ k.sessionID = sessionID
               /\ k.arg = [userMessage |-> userMessage, model |-> model]
               /\ lastCall' = Call("resume", sessionID, k)
               /\ raised' = FALSE
               /\ UNCHANGED <<now, pc, host, hooks>>
               /\ IF k.at = "prevTurnInserted"
                  THEN /\ OpenTurn(sessionID, userMessage, model)
                       /\ suspended' = [suspended EXCEPT ![i].at = "turnInserted"]
                  ELSE /\ Dropped
                       /\ suspended' = RemoveAt(suspended, i)

\* handleSessionIdle, in the steps between its awaits
SessionIdleSteps(sessionID) ==
    \/ /\ CanStart
       /\ lastCall' = Call("session.idle", sessionID, NoStr)
       /\ raised' = FALSE
       /\ UNCHANGED <<now, pc, host, hooks, nextId>>
       /\ IF ~Truthy(sessionID) \/ ~HasState(sessionID)
          THEN UNCHANGED <<sessionStates, emitted, spans, suspended>>
          ELSE LET state == sessionStates[sessionID]
               IN  IF HasOpenTurn(state)
                   THEN /\ Emit(<<Tagged(sessionID, "turn.close",
                                         TurnCloseSpan(state, now, NoStr))>>)
                        /\ UNCHANGED sessionStates
                        /\ suspended' =
                               Append(suspended,
                                      Suspension("idle", "turnSpanInserted", sessionID,
                                                 state.currentTurnSpanId, NoStr))
                   ELSE IF IsChildSession(state) /\ state.rootSpanId # NoId
                   THEN /\ Emit(<<Tagged(sessionID, "root.close",
                                         RootCloseSpan(state, now, NoStr, NoStr))>>)
                        /\ UNCHANGED sessionStates
                        /\ suspended' =
                               Append(suspended,
                                      Suspension("idle", "rootSpanInserted", sessionID,
                                                 NoId, NoStr))
                   ELSE UNCHANGED <<sessionStates, emitted, spans, suspended>>
    \/ \E i \in 1..Len(suspended) :
           LET k == suspended[i]
           IN  /\ k.handler = "idle" /\ k.sessionID = sessionID
               /\ HasState(sessionID)
               /\ lastCall' = Call("resume", sessionID, k)
               /\ raised' = FALSE
               /\ UNCHANGED <<now, pc, host, hooks, nextId>>
               /\ IF k.at = "turnSpanInserted"
                  THEN LET state == sessionStates[sessionID]
                           idled == [state EXCEPT !.currentTurnSpanId = NoId,
                                                  !.currentInput = NoStr,
                                                  !.currentOutput = NoStr,
                                                  !.currentTurnStartTime = NoNum]
                       IN  /\ sessionStates' = SetState(sessionID, idled)
                           /\ IF IsChildSession(state) /\ state.rootSpanId # NoId
                              THEN /\ Emit(<<Tagged(sessionID, "root.close",
                                                    RootCloseSpan(idled, now, NoStr, NoStr))>>)
                                   /\ suspended' =
                                          [suspended EXCEPT ![i].at = "rootSpanInserted"]
                              ELSE /\ NoEmit
                                   /\ suspended' = RemoveAt(suspended, i)
                  ELSE /\ sessionStates' = DeleteState(sessionID)
                       /\ NoEmit
                       /\ suspended' = RemoveAt(suspended, i)

\* variant: the message is marked as processed once the insert has returned
MessageUpdatedSteps_MarksLate(messageInfo) ==
    LET sessionID == messageInfo.sessionID
    IN  \/ /\ CanStart
           /\ lastCall' = Call("message.updated", sessionID,
                               [role |-> messageInfo.role, id |-> messageInfo.id,
                                time |-> messageInfo.time, tokens |-> messageInfo.tokens])
           /\ UNCHANGED <<now, pc, host, hooks>>
           /\ IF ~MessageAccepted(messageInfo)
              THEN raised' = FALSE /\ Dropped /\ UNCHANGED suspended
              ELSE LET state == sessionStates[sessionID]
                       llmSpanId == nextId + 1
                   IN  /\ UNCHANGED sessionStates
                       /\ nextId' = nextId + 1
                       /\ IF messageInfo.time.created = NoNum
                          THEN raised' = TRUE /\ NoEmit /\ UNCHANGED suspended
                          ELSE /\ raised' = FALSE
                               /\ Emit(<<Tagged(sessionID, "llm",
                                                LlmSpan(state, llmSpanId, messageInfo))>>)
                               /\ suspended' =
                                      Append(suspended,
                                             Suspension("message", "llmSpanInserted",
                                                        sessionID, NoId, messageInfo))
        \/ \E i \in 1..Len(suspended) :
               LET k == suspended[i]
               IN  /\ k.handler = "message" /\ k.arg = messageInfo
                   /\ HasState(sessionID)
                   /\ lastCall' = Call("resume", sessionID, k)
                   /\ raised' = FALSE
                   /\ UNCHANGED <<now, pc, host, hooks, emitted, spans, nextId>>
                   /\ sessionStates' =
                          SetState(sessionID,
                                   [sessionStates[sessionID] EXCEPT
                                        !.processedLlmMessages = @ \cup {messageInfo.id}])
                   /\ suspended' = RemoveAt(suspended, i)

\* handleMessageUpdated, in the steps between its awaits
MessageUpdatedSteps(messageInfo) ==
    LET sessionID == messageInfo.sessionID
    IN  \/ /\ CanStart
           /\ lastCall' = Call("message.updated", sessionID,
                               [role |-> messageInfo.role, id |-> messageInfo.id,
                                time |-> messageInfo.time, tokens |-> messageInfo.tokens])
           /\ UNCHANGED <<now, pc, host, hooks>>
           /\ IF ~MessageAccepted(messageInfo)
              THEN raised' = FALSE /\ Dropped /\ UNCHANGED suspended
              ELSE LET state == sessionStates[sessionID]
                       marked == [state EXCEPT
                                      !.processedLlmMessages = @ \cup {messageInfo.id}]
                       llmSpanId == nextId + 1
                   IN  /\ sessionStates' = SetState(sessionID, marked)
                       /\ nextId' = nextId + 1
                       /\ IF messageInfo.time.created = NoNum
                          THEN raised' = TRUE /\ NoEmit /\ UNCHANGED suspended
                          ELSE /\ raised' = FALSE
                               /\ Emit(<<Tagged(sessionID, "llm",
                                                LlmSpan(state, llmSpanId, messageInfo))>>)
                               /\ suspended' =
                                      Append(suspended,
                                             Suspension("message", "llmSpanInserted",
                                                        sessionID, NoId, messageInfo))
        \/ \E i \in 1..Len(suspended) :
               LET k == suspended[i]
               IN  /\ k.handler = "message" /\ k.arg = messageInfo
                   /\ lastCall' = Call("resume", sessionID, k)
                   /\ raised' = FALSE
                   /\ UNCHANGED <<now, pc, host, hooks>>
                   /\ Dropped
                   /\ suspended' = RemoveAt(suspended, i)

InitInterleaved ==
    /\ sessionStates = EmptyMap
    /\ emitted = <<>>
    /\ spans = <<>>
    /\ nextId = 0
    /\ now = 1
    /\ lastCall = Call("none", NoStr, NoStr)
    /\ raised = FALSE
    /\ pc = "running"
    /\ host \in InterleavedHosts
    /\ suspended = <<>>
    /\ hooks = NoHooks

SessionCreatedAtRest == suspended = <<>> /\ SessionCreatedEvent
SessionDeletedAtRest == suspended = <<>> /\ SessionDeletedEvent
ChatMessageInterleaved ==
    \E s \in host.sessions, m \in UserMessages, model \in ChatModels :
        ChatMessageSteps(s, m, model)
SessionIdleInterleaved == \E s \in host.sessions : SessionIdleSteps(s)
MessageUpdatedInterleaved ==
    \E info \in MessageUpdates :
        info.sessionID \in host.sessions /\ MessageUpdatedSteps(info)

InterleavedNext ==
    \/ SessionCreatedAtRest
    \/ SessionDeletedAtRest
    \/ ChatMessageInterleaved
    \/ SessionIdleInterleaved
    \/ MessageUpdatedInterleaved

SpecInterleaved == InitInterleaved /\ [][InterleavedNext]_vars

(***************************************************************************)
(* The hooks of createTracingHooks (client.ts).  Under SpecHooks the host  *)
(* hands every item first to the hooks and then to the EventProcessor, one *)
(* call returning before the next starts.  A hook is an operator from the  *)
(* state of the hooks and the item to the state after the call.            *)
(***************************************************************************)
\* PluginInput.worktree, PluginInput.directory
input == [worktree |-> "/home/dev/test-project", directory |-> "/home/dev/test-project"]

\* getHostname(), getUsername(), getOS() of the machine the plugin runs on
Hostname == "devbox"
Username == "dev"
OS == "linux"

\* the ids crypto.randomUUID() hands to the hooks are not those of the processor
HookIdBase == 100

\* worktree.split("/").filter(Boolean): the last part, or "unknown"
GetProjectName(worktree) ==
    LET hi == LastOutside(worktree, Len(worktree), {"/"})
    IN  IF hi = 0 THEN "unknown"
        ELSE SubSeq(worktree,
                    Max({0} \cup {x \in 1..hi : CharAt(worktree, x) = "/"}) + 1, hi)

\* the error a message.updated event may carry in info.error; <<>>: none
MessageErrors ==
    {<<>>,
     <<[name |-> "APIError", message |-> "Overloaded"]>>,
     <<[name |-> NoStr, message |-> NoStr]>>}

HookSetState(h, s, state) ==
    [h EXCEPT !.sessionStates =
        [x \in DOMAIN h.sessionStates \cup {s} |->
            IF x = s THEN state ELSE h.sessionStates[x]]]

HookDeleteState(h, s) ==
    [h EXCEPT !.sessionStates =
        [x \in DOMAIN h.sessionStates \ {s} |-> h.sessionStates[x]]]

\* await btClient.insertSpan(record, log), for each record in turn
HookInsert(h, records) == [h EXCEPT !.emitted = h.emitted \o records]

HookRootSpan(rootSpanId, sessionKey, start) ==
    [id |-> rootSpanId,
     span_id |-> rootSpanId,
     root_span_id |-> rootSpanId,
     created |-> ToISOString(start),
     metadata |-> [session_id |-> sessionKey,
                   workspace |-> input.worktree,
                   directory |-> input.directory,
                   hostname |-> Hostname,
                   username |-> Username,
                   os |-> OS],
     metrics |-> [start |-> start],
     span_attributes |-> [name |-> "OpenCode: " \o GetProjectName(input.worktree),
                          type |-> "task"]]

\* event.type === "session.created"
HookSessionCreated(h, sessionInfo) ==
    LET sessionID == sessionInfo.id
        parentSessionID == sessionInfo.parentID
        rootSpanId == h.nextId + 1
    IN  IF Truthy(sessionID) /\ Truthy(parentSessionID)
           /\ parentSessionID \in DOMAIN h.sessionStates
        THEN LET parentState == h.sessionStates[parentSessionID]
                 subagentTitle == SubagentTitle(sessionInfo.title)
                 childState ==
                     NewSessionState(rootSpanId, parentState.effectiveRootSpanId, now,
                                     parentSessionID, parentState.effectiveRootSpanId,
                                     parentState.currentTurnSpanId, subagentTitle)
                 root_span == ChildRootSpan(rootSpanId, parentState, sessionID,
                                            parentSessionID, subagentTitle, now)
             IN  HookInsert([HookSetState(h, sessionID, childState)
                                 EXCEPT !.nextId = rootSpanId],
                            <<Tagged(sessionID, "root", root_span)>>)
        ELSE IF ~Truthy(sessionID)
        THEN h
        ELSE LET state == NewSessionState(rootSpanId, rootSpanId, now,
                                          NoStr, NoId, NoId, NoStr)
             IN  HookInsert([HookSetState(h, sessionID, state)
                                 EXCEPT !.nextId = rootSpanId],
                            <<Tagged(sessionID, "root",
                                     HookRootSpan(rootSpanId, sessionID, now))>>)

\* event.type === "message.part.updated"
HookMessagePartUpdated(h, part) ==
    IF ~Truthy(part.sessionID) \/ part.sessionID \notin DOMAIN h.sessionStates
    THEN h
    ELSE HookSetState(h, part.sessionID,
                      PartUpdate(h.sessionStates[part.sessionID], part))

HookAssistantMessage(state, messageId) ==
    LET outputText == IF Truthy(MapGetStr(state.llmOutputParts, messageId))
                      THEN state.llmOutputParts[messageId] ELSE ""
        reasoningText == MapGetStr(state.llmReasoningParts, messageId)
        base == [role |-> "assistant", content |-> outputText]
        withCalls ==
            IF messageId \in DOMAIN state.llmToolCalls /\ Len(state.llmToolCalls[messageId]) > 0
            THEN Spread(base, [tool_calls |-> state.llmToolCalls[messageId]])
            ELSE base
    IN  IF Truthy(reasoningText)
        THEN Spread(withCalls, [reasoning |-> [content |-> reasoningText]])
        ELSE withCalls

\* llmErrorString: undefined without info.error
LlmErrorString(msgError) ==
    IF msgError = <<>> THEN NoStr ELSE ErrorString(msgError[1])

HookLlmSpan(state, llmSpanId, messageInfo) ==
    LET inputTokens == NumberOrZero(messageInfo.tokens.input)
        outputTokens == NumberOrZero(messageInfo.tokens.output)
        reasoningTokens == NumberOrZero(messageInfo.tokens.reasoning)
        totalTokens == inputTokens + outputTokens + reasoningTokens
        providerID == IF Truthy(messageInfo.providerID) THEN messageInfo.providerID ELSE "unknown"
        modelID == IF Truthy(messageInfo.modelID) THEN messageInfo.modelID ELSE "unknown"
        modelName == providerID \o "/" \o modelID
    IN  [id |-> llmSpanId,
         span_id |-> llmSpanId,
         root_span_id |-> state.effectiveRootSpanId,
         span_parents |-> <<state.currentTurnSpanId>>,
         created |-> ToISOString(messageInfo.time.created),
         input |-> LlmInput(state),
         output |-> <<HookAssistantMessage(state, messageInfo.id)>>,
         error |-> LlmErrorString(messageInfo.error),
         metrics |-> [start |-> messageInfo.time.created,
                      end |-> messageInfo.time.completed,
                      prompt_tokens |-> inputTokens,
                      completion_tokens |-> outputTokens,
                      tokens |-> totalTokens,
                      reasoning_tokens |-> IF reasoningTokens = 0 THEN NoNum
                                           ELSE reasoningTokens],
         metadata |-> [model |-> modelName,
                       provider |-> providerID,
                       message_id |-> messageInfo.id],
         span_attributes |-> [name |-> modelName, type |-> "llm"]]

\* event.type === "message.updated"; the RangeError of new Date(undefined)
\* .toISOString() is caught by the hook
HookMessageUpdated(h, messageInfo) ==
    LET sessionID == messageInfo.sessionID
        accepted ==
            /\ messageInfo.role = "assistant"
            /\ Truthy(sessionID) /\ Truthy(messageInfo.id)
            /\ sessionID \in DOMAIN h.sessionStates
            /\ messageInfo.time.completed # NoNum /\ messageInfo.time.completed # 0
            /\ messageInfo.id \notin h.sessionStates[sessionID].processedLlmMessages
            /\ HasOpenTurn(h.sessionStates[sessionID])
    IN  IF ~accepted THEN h
        ELSE LET state == h.sessionStates[sessionID]
                 marked == [state EXCEPT
                                !.processedLlmMessages = @ \cup {messageInfo.id}]
                 llmSpanId == h.nextId + 1
                 after == [HookSetState(h, sessionID, marked) EXCEPT !.nextId = llmSpanId]
             IN  IF messageInfo.time.created = NoNum
                 THEN after
                 ELSE HookInsert(after,
                                 <<Tagged(sessionID, "llm",
                                          HookLlmSpan(state, llmSpanId, messageInfo))>>)

\* event.type === "session.idle"
HookSessionIdle(h, sessionID) ==
    IF ~Truthy(sessionID) \/ sessionID \notin DOMAIN h.sessionStates
    THEN h
    ELSE LET state == h.sessionStates[sessionID]
             isChildSession == IsChildSession(state)
             turnSpan ==
                 IF HasOpenTurn(state)
                 THEN <<Tagged(sessionID, "turn.close", TurnCloseSpan(state, now, NoStr))>>
                 ELSE <<>>
             idled ==
                 IF HasOpenTurn(state)
                 THEN [state EXCEPT !.currentTurnSpanId = NoId,
                                    !.currentInput = NoStr,
                                    !.currentOutput = NoStr,
                                    !.currentTurnStartTime = NoNum]
                 ELSE state
         IN  IF isChildSession /\ state.rootSpanId # NoId
             THEN HookInsert(HookDeleteState(h, sessionID),
                             turnSpan \o
                             <<Tagged(sessionID, "root.close",
                                      RootCloseSpan(idled, now, NoStr, NoStr))>>)
             ELSE HookInsert(HookSetState(h, sessionID, idled), turnSpan)

\* event.type === "session.deleted"
HookSessionDeleted(h, sessionID) ==
    IF ~Truthy(sessionID) \/ sessionID \notin DOMAIN h.sessionStates
    THEN h
    ELSE LET state == h.sessionStates[sessionID]
             turnSpan ==
                 IF HasOpenTurn(state)
                 THEN <<Tagged(sessionID, "turn.close", TurnCloseSpan(state, now, NoStr))>>
                 ELSE <<>>
         IN  HookInsert(HookDeleteState(h, sessionID),
                        turnSpan \o
                        <<Tagged(sessionID, "root.close",
                                 RootCloseSpan(state, now, NoStr, NoStr))>>)

\* event.type === "session.error"
HookSessionError(h, sessionID, errorObj) ==
    IF ~Truthy(sessionID) \/ sessionID \notin DOMAIN h.sessionStates
    THEN h
    ELSE LET state == h.sessionStates[sessionID]
             errorString == ErrorString(errorObj)
             turnSpan ==
                 IF HasOpenTurn(state)
                 THEN <<Tagged(sessionID, "turn.close",
                               TurnCloseSpan(state, now, errorString))>>
                 ELSE <<>>
         IN  HookInsert(HookDeleteState(h, sessionID),
                        turnSpan \o
                        <<Tagged(sessionID, "root.close",
                                 RootCloseSpan(state, now, errorString,
                                               ErrorName(errorObj)))>>)

\* output.parts?.filter((p) => p.type === "text").map((p) => p.text).join("\n") || ""
RECURSIVE JoinTextParts(_)
JoinTextParts(parts) ==
    IF parts = <<>> THEN ""
    ELSE LET rest == JoinTextParts(Tail(parts))
             more == \E i \in 2..Len(parts) : parts[i].type = "text"
         IN  IF Head(parts).type # "text" THEN rest
             ELSE IF more THEN Head(parts).text \o "\n" \o rest
             ELSE Head(parts).text

HookTurnSpan(state, turnSpanId, turnNumber, userMessage, messageInput, start) ==
    [id |-> turnSpanId,
     span_id |-> turnSpanId,
     root_span_id |-> state.effectiveRootSpanId,
     span_parents |-> <<state.rootSpanId>>,
     created |-> ToISOString(start),
     input |-> OrUndefined(userMessage),
     metadata |-> [turn_number |-> turnNumber,
                   agent |-> messageInput.agent,
                   model |-> messageInput.model.providerID \o "/" \o
                             messageInput.model.modelID],
     metrics |-> [start |-> start],
     span_attributes |-> [name |-> "Turn " \o NumberToString(turnNumber), type |-> "task"]]

\* the "chat.message" hook
HookChatMessage(h, messageInput, output) ==
    LET sessionID == messageInput.sessionID
    IN  IF sessionID \notin DOMAIN h.sessionStates
        THEN h
        ELSE LET state == h.sessionStates[sessionID]
                 prevTurnSpan ==
                     IF HasOpenTurn(state)
                     THEN <<Tagged(sessionID, "turn.close",
                                   TurnCloseSpan(state, now, NoStr))>>
                     ELSE <<>>
                 turnSpanId == h.nextId + 1
                 turnNumber == state.turnNumber + 1
                 userMessage == JoinTextParts(output.parts)
                 turnSpan == HookTurnSpan(state, turnSpanId, turnNumber, userMessage,
                                          messageInput, now)
                 opened == [state EXCEPT !.turnNumber = turnNumber,
                                         !.currentTurnSpanId = turnSpanId,
                                         !.currentOutput = NoStr,
                                         !.currentInput = userMessage,
                                         !.currentTurnStartTime = now]
             IN  HookInsert([HookSetState(h, sessionID, opened)
                                 EXCEPT !.nextId = turnSpanId],
                            prevTurnSpan \o <<Tagged(sessionID, "turn", turnSpan)>>)

\* the "tool.execute.before" hook
HookToolExecuteBefore(h, toolInput) ==
    IF toolInput.sessionID \in DOMAIN h.sessionStates
    THEN HookSetState(h, toolInput.sessionID,
                      [h.sessionStates[toolInput.sessionID] EXCEPT
                           !.toolStartTimes = MapSet(@, toolInput.callID, now)])
    ELSE h

\* the "tool.execute.after" hook
HookToolExecuteAfter(h, toolInput, result) ==
    LET sessionID == toolInput.sessionID
        callID == toolInput.callID
    IN  IF sessionID \notin DOMAIN h.sessionStates
           \/ ~HasOpenTurn(h.sessionStates[sessionID])
        THEN h
        ELSE LET state == h.sessionStates[sessionID]
                 startTime == MapGetNum(state.toolStartTimes, callID)
                 messageId == MapGetStr(state.toolCallMessageIds, callID)
                 reasoning ==
                     IF messageId # NoStr /\ messageId # ""
                     THEN MapGetStr(state.llmReasoningParts, messageId)
                     ELSE NoStr
                 toolSpanId == h.nextId + 1
                 id == h.nextId + 2
                 toolSpan == ToolSpan(state, id, toolSpanId, callID, toolInput.tool,
                                      result.title, result.output, result.metadata,
                                      reasoning, startTime, now)
                 counted == [state EXCEPT
                                 !.toolCallCount = @ + 1,
                                 !.toolStartTimes = MapDelete(@, callID),
                                 !.toolCallMessageIds = MapDelete(@, callID)]
             IN  HookInsert([HookSetState(h, sessionID, counted) EXCEPT !.nextId = id],
                            <<Tagged(sessionID, "tool", toolSpan)>>)

\* the events and hook calls the host of SpecHooks delivers
HookItems ==
    {[op |-> "session.created", sessionID |-> info.id, info |-> info] :
        info \in {i \in SessionInfos : i.id \in host.sessions}}
    \cup {[op |-> "message.part.updated", sessionID |-> part.sessionID, part |-> part] :
            part \in {p \in Fragments : p.sessionID \in host.sessions}}
    \cup {[op |-> "message.updated", sessionID |-> info.sessionID, info |-> info,
           error |-> e] :
            info \in {m \in MessageUpdates : m.sessionID \in host.sessions},
            e \in MessageErrors}
    \cup {[op |-> op, sessionID |-> s] :
            op \in {"session.idle", "session.deleted"}, s \in host.sessions}
    \cup {[op |-> "session.error", sessionID |-> s, error |-> e] :
            s \in host.sessions, e \in SessionErrors}
    \cup {[op |-> "chat.message", sessionID |-> s, userMessage |-> m, model |-> model] :
            s \in host.sessions, m \in UserMessages, model \in ChatModels}
    \cup {[op |-> "tool.execute.before", sessionID |-> s, callID |-> c] :
            s \in host.sessions, c \in CallIds}
    \cup {[op |-> "tool.execute.after", sessionID |-> s, callID |-> c, tool |-> tool,
           title |-> title, output |-> output, metadata |-> metadata] :
            s \in host.sessions, c \in CallIds, tool \in ToolNames, title \in ToolTitles,
            output \in ToolOutputs, metadata \in ToolInputs}

\* the hook of createTracingHooks that takes the item, applied to it
HookHandle(h, item) ==
    CASE item.op = "session.created" -> HookSessionCreated(h, item.info)
      [] item.op = "message.part.updated" -> HookMessagePartUpdated(h, item.part)
      [] item.op = "message.updated" ->
            HookMessageUpdated(h, Spread(item.info, [error |-> item.error]))
      [] item.op = "session.idle" -> HookSessionIdle(h, item.sessionID)
      [] item.op = "session.deleted" -> HookSessionDeleted(h, item.sessionID)
      [] item.op = "session.error" -> HookSessionError(h, item.sessionID, item.error)
      [] item.op = "chat.message" ->
            HookChatMessage(h,
                            [sessionID |-> item.sessionID, agent |-> NoStr,
                             model |-> item.model],
                            [parts |-> <<[type |-> "text", text |-> item.userMessage]>>])
      [] item.op = "tool.execute.before" ->
            HookToolExecuteBefore(h, [sessionID |-> item.sessionID, callID |-> item.callID])
      [] item.op = "tool.execute.after" ->
            HookToolExecuteAfter(h,
                                 [tool |-> item.tool, sessionID |-> item.sessionID,
                                  callID |-> item.callID],
                                 [title |-> item.title, output |-> item.output,
                                  metadata |-> item.metadata])

\* the host calls the hook for the next item
HooksDeliver ==
    /\ CanDeliver
    /\ lastCall.op # "hooks"
    /\ \E item \in HookItems :
           /\ hooks' = [HookHandle(hooks, item) EXCEPT !.item = item]
           /\ lastCall' = Call("hooks", item.sessionID, item)
    /\ raised' = FALSE
    /\ UNCHANGED <<sessionStates, emitted, spans, nextId, now, pc, host, suspended>>

\* the host hands the item the hooks have taken to the EventProcessor
ProcessorTakes(op) == lastCall.op = "hooks" /\ hooks.item.op = op

ProcessorSessionCreated ==
    ProcessorTakes("session.created") /\ HandleSessionCreated(hooks.item.info)
ProcessorMessagePartUpdated ==
    ProcessorTakes("message.part.updated") /\ HandleMessagePartUpdated(hooks.item.part)
ProcessorMessageUpdated ==
    ProcessorTakes("message.updated") /\ HandleMessageUpdated(hooks.item.info)
ProcessorSessionIdle ==
    ProcessorTakes("session.idle") /\ HandleSessionIdle(hooks.item.sessionID)
ProcessorSessionDeleted ==
    ProcessorTakes("session.deleted") /\ HandleSessionDeleted(hooks.item.sessionID)
ProcessorSessionError ==
    ProcessorTakes("session.error")
    /\ HandleSessionError(hooks.item.sessionID, hooks.item.error)
ProcessorChatMessage ==
    ProcessorTakes("chat.message")
    /\ ProcessChatMessage(hooks.item.sessionID, hooks.item.userMessage, hooks.item.model)
ProcessorToolExecuteBefore ==
    ProcessorTakes("tool.execute.before")
    /\ ProcessToolExecuteBefore(hooks.item.sessionID, hooks.item.callID)
ProcessorToolExecuteAfter ==
    ProcessorTakes("tool.execute.after")
    /\ ProcessToolExecuteAfter(hooks.item.sessionID, hooks.item.callID, hooks.item.tool,
                               hooks.item.title, hooks.item.output, hooks.item.metadata)

InitHooks ==
    /\ sessionStates = EmptyMap
    /\ emitted = <<>>
    /\ spans = <<>>
    /\ nextId = 0
    /\ now = 1
    /\ lastCall = Call("none", NoStr, NoStr)
    /\ raised = FALSE
    /\ pc = "running"
    /\ host \in HookHosts
    /\ suspended = <<>>
    /\ hooks = [NoHooks EXCEPT !.nextId = HookIdBase]

HooksNext ==
    \/ HooksDeliver
    \/ ProcessorSessionCreated
    \/ ProcessorMessagePartUpdated
    \/ ProcessorMessageUpdated
    \/ ProcessorSessionIdle
    \/ ProcessorSessionDeleted
    \/ ProcessorSessionError
    \/ ProcessorChatMessage
    \/ ProcessorToolExecuteBefore
    \/ ProcessorToolExecuteAfter

SpecHooks == InitHooks /\ [][HooksNext]_vars

(***************************************************************************)
(* Reading the emitted records.                                            *)
(***************************************************************************)
SpanType(span) ==
    IF "span_attributes" \in DOMAIN span THEN span.span_attributes.type ELSE NoStr

\* a merge record for span id that sets metrics.end
IsClosing(span, id) ==
    /\ IsMerge(span)
    /\ span.span_id = id
    /\ "metrics" \in DOMAIN span
    /\ "end" \in DOMAIN span.metrics
    /\ span.metrics.end # NoNum

\* positions in em of the turn spans of session s that no later record closes
OpenTurnsIn(em, s) ==
    {i \in 1..Len(em) :
        /\ em[i].session = s
        /\ em[i].kind = "turn"
        /\ ~\E j \in (i + 1)..Len(em) : IsClosing(em[j].span, em[i].span.span_id)}

\* the step delivers call op for session s
Delivers(op, s) == lastCall'.op = op /\ lastCall'.sessionID = s

NoSessionState(s) == s \notin DOMAIN sessionStates

NoOpenTurn(s) == NoSessionState(s) \/ sessionStates[s].currentTurnSpanId = NoId

(***************************************************************************)
(* C1: at most one span record of type "llm" is ever emitted for one       *)
(* assistant message id, whatever events and hook calls are delivered.     *)
(***************************************************************************)
C1_OneLlmSpanPerMessage ==
    \A i, j \in 1..Len(emitted) :
        (/\ SpanType(emitted[i].span) = "llm"
         /\ SpanType(emitted[j].span) = "llm"
         /\ emitted[i].span.metadata.message_id = emitted[j].span.metadata.message_id)
        => i = j

(***************************************************************************)
(* C2: in every reachable state each session id has at most one open turn  *)
(* span: emitted, and not closed by a later merge that sets metrics.end.   *)
(***************************************************************************)
C2_AtMostOneOpenTurn ==
    \A s \in SessionIds : Cardinality(OpenTurnsIn(emitted, s)) <= 1

(***************************************************************************)
(* C3: a tool "after" hook for a session with no SessionState, or with no  *)
(* open turn, emits nothing and changes no SessionState (toolCallCount     *)
(* included): nothing of the call is kept for a later turn.                *)
(***************************************************************************)
C3_ToolAfterDropped ==
    [][\A s \in SessionIds :
          (Delivers("tool.execute.after", s) /\ NoOpenTurn(s))
          => /\ emitted' = emitted
             /\ spans' = spans
             /\ sessionStates' = sessionStates]_vars

\* the hook was just dropped for a session whose turn session.idle had closed
C3_Witness ==
    /\ lastCall.op = "tool.execute.after"
    /\ ~NoSessionState(lastCall.sessionID)
    /\ NoOpenTurn(lastCall.sessionID)
    /\ sessionStates[lastCall.sessionID].turnNumber >= 1
    /\ sessionStates[lastCall.sessionID].toolCallCount = 0
    /\ \A i \in 1..Len(emitted) : SpanType(emitted[i].span) # "tool"

(***************************************************************************)
(* Root spans and the records that close them.                             *)
(***************************************************************************)
\* positions in em of the record that opened root span id
RootRecords(em, id) ==
    {i \in 1..Len(em) : em[i].kind = "root" /\ em[i].span.span_id = id}

IsRootId(em, id) == RootRecords(em, id) # {}

LastOf(em) == em[Len(em)]

HasParent(state) == state.parentSessionId # NoStr /\ state.parentSessionId # ""

\* the step delivers an event that ends session s
EndsSession(s) ==
    \/ Delivers("session.deleted", s)
    \/ Delivers("session.error", s)
    \/ Delivers("session.idle", s) /\ HasParent(sessionStates[s])

(***************************************************************************)
(* C4 as stated: every root span that was emitted is closed by a merge     *)
(* with metrics.end >= metrics.start by the time the run is over.          *)
(***************************************************************************)
C4_EveryRootClosed ==
    pc = "returned" =>
        \A i \in 1..Len(emitted) :
            emitted[i].kind = "root" =>
                \E j \in (i + 1)..Len(emitted) :
                    /\ IsClosing(emitted[j].span, emitted[i].span.span_id)
                    /\ emitted[j].span.metrics.end >= emitted[i].span.metrics.start

(***************************************************************************)
(* C4 amended: when session.deleted, session.error or, for a child         *)
(* session, session.idle is processed for a session that has a             *)
(* SessionState, the last record it emits is a merge closing that state's  *)
(* root span with metrics.end >= the root's metrics.start; and no other    *)
(* call emits a record closing a root span.                                *)
(***************************************************************************)
C4_RootClosedOnEnd ==
    [][/\ \A s \in SessionIds :
              (~NoSessionState(s) /\ EndsSession(s))
              => LET id == sessionStates[s].rootSpanId
                 IN  /\ Len(emitted') > Len(emitted)
                     /\ IsClosing(LastOf(emitted').span, id)
                     /\ RootRecords(emitted, id) # {}
                     /\ \A i \in RootRecords(emitted, id) :
                            LastOf(emitted').span.metrics.end
                                >= emitted[i].span.metrics.start
       /\ \A j \in (Len(emitted) + 1)..Len(emitted') :
              (\E i \in 1..Len(emitted) :
                   /\ emitted[i].kind = "root"
                   /\ IsClosing(emitted'[j].span, emitted[i].span.span_id))
              => lastCall'.op \in {"session.deleted", "session.error", "session.idle"}]_vars

\* session.deleted has just closed a root span that was opened earlier on the clock
C4_Witness ==
    /\ lastCall.op = "session.deleted"
    /\ Len(emitted) >= 2
    /\ \E i \in 1..(Len(emitted) - 1) :
           /\ emitted[i].kind = "root"
           /\ emitted[i].session = lastCall.sessionID
           /\ IsClosing(LastOf(emitted).span, emitted[i].span.span_id)
           /\ LastOf(emitted).span.metrics.end > emitted[i].span.metrics.start

(***************************************************************************)
(* C5: session.created naming a parent that has a SessionState emits one   *)
(* root span for the child whose root_span_id is the parent's effective    *)
(* root id and whose span_parents is exactly the parent's open turn id,    *)
(* or is absent when the parent has no open turn.                          *)
(***************************************************************************)
C5_ChildRootLinked ==
    [][\A s, p \in SessionIds :
          (Delivers("session.created", s) /\ lastCall'.arg = p /\ ~NoSessionState(p))
          => LET parent == sessionStates[p]
                 rec == LastOf(emitted').span
             IN  /\ Len(emitted') = Len(emitted) + 1
                 /\ SubSeq(emitted', 1, Len(emitted)) = emitted
                 /\ ~IsMerge(rec)
                 /\ rec.metadata.session_id = s
                 /\ rec.root_span_id = parent.effectiveRootSpanId
                 /\ rec.span_parents =
                        IF parent.currentTurnSpanId # NoId
                        THEN <<parent.currentTurnSpanId>>
                        ELSE <<>>]_vars

\* a child has just been created under its parent's open turn
C5_Witness ==
    /\ lastCall.op = "session.created"
    /\ lastCall.arg \in DOMAIN sessionStates
    /\ sessionStates[lastCall.arg].currentTurnSpanId # NoId
    /\ Len(emitted) >= 3
    /\ LastOf(emitted).span.metadata.session_id = lastCall.sessionID
    /\ LastOf(emitted).span.span_parents = <<sessionStates[lastCall.arg].currentTurnSpanId>>
    /\ LastOf(emitted).span.root_span_id = sessionStates[lastCall.arg].effectiveRootSpanId

(***************************************************************************)
(* C6: session.created naming a parent that has no SessionState is         *)
(* dropped: no SessionState is created and no record is emitted.           *)
(***************************************************************************)
C6_OrphanChildDropped ==
    [][\A s \in SessionIds :
          (/\ Delivers("session.created", s)
           /\ lastCall'.arg # NoStr /\ lastCall'.arg # ""
           /\ NoSessionState(lastCall'.arg))
          => /\ emitted' = emitted
             /\ sessionStates' = sessionStates]_vars

(***************************************************************************)
(* C7: an event other than session.created, or a hook call, that names a   *)
(* session id with no SessionState emits nothing, does not raise, and      *)
(* leaves the mapping and every SessionState as they were.                 *)
(***************************************************************************)
C7_UnknownSessionIgnored ==
    [][\A s \in SessionIds :
          (/\ lastCall'.sessionID = s
           /\ lastCall'.op # "session.created"
           /\ NoSessionState(s))
          => /\ emitted' = emitted
             /\ spans' = spans
             /\ sessionStates' = sessionStates
             /\ raised' = FALSE]_vars

\* a chat hook has just been ignored for a session that an earlier event closed
C7_Witness ==
    /\ lastCall.op = "chat.message"
    /\ lastCall.sessionID \in SessionIds
    /\ NoSessionState(lastCall.sessionID)
    /\ raised = FALSE
    /\ Len(emitted) >= 2
    /\ LastOf(emitted).session = lastCall.sessionID
    /\ \E i \in 1..(Len(emitted) - 1) :
           /\ emitted[i].kind = "root"
           /\ IsClosing(LastOf(emitted).span, emitted[i].span.span_id)

(***************************************************************************)
(* C8: a chat hook for a session with an open turn emits the merge closing *)
(* that turn (same span_id, metrics.end set, output the captured assistant *)
(* text) and then the record of the new turn; after the call the new turn  *)
(* is the only open turn of the session.                                   *)
(***************************************************************************)
C8_ChatClosesPreviousTurn ==
    [][\A s \in SessionIds :
          (Delivers("chat.message", s) /\ ~NoOpenTurn(s))
          => LET state == sessionStates[s]
                 n == Len(emitted)
             IN  /\ Len(emitted') = n + 2
                 /\ SubSeq(emitted', 1, n) = emitted
                 /\ IsClosing(emitted'[n + 1].span, state.currentTurnSpanId)
                 /\ emitted'[n + 1].span.output = OrUndefined(state.currentOutput)
                 /\ ~IsMerge(emitted'[n + 2].span)
                 /\ emitted'[n + 2].kind = "turn"
                 /\ emitted'[n + 2].span.span_id = sessionStates'[s].currentTurnSpanId
                 /\ emitted'[n + 2].span.span_id # state.currentTurnSpanId
                 /\ OpenTurnsIn(emitted', s) = {n + 2}]_vars

(***************************************************************************)
(* C9: session.idle for a top-level session with an open turn emits just   *)
(* the merge closing that turn and keeps the SessionState, with no open    *)
(* turn and the root span unclosed; the next chat hook then opens the next *)
(* turn.  With no open turn session.idle emits nothing.                    *)
(***************************************************************************)
C9_IdleTopLevel ==
    [][\A s \in SessionIds :
          LET state == sessionStates[s]
              n == Len(emitted)
          IN  /\ (/\ Delivers("session.idle", s)
                  /\ ~NoSessionState(s)
                  /\ ~HasParent(state))
                 => IF state.currentTurnSpanId # NoId
                    THEN /\ Len(emitted') = n + 1
                         /\ SubSeq(emitted', 1, n) = emitted
                         /\ IsClosing(emitted'[n + 1].span, state.currentTurnSpanId)
                         /\ ~IsRootId(emitted, emitted'[n + 1].span.span_id)
                         /\ s \in DOMAIN sessionStates'
                         /\ sessionStates'[s].currentTurnSpanId = NoId
                         /\ sessionStates'[s].rootSpanId = state.rootSpanId
                         /\ sessionStates'[s].turnNumber = state.turnNumber
                    ELSE /\ emitted' = emitted
                         /\ sessionStates' = sessionStates
              /\ (/\ Delivers("chat.message", s)
                  /\ ~NoSessionState(s)
                  /\ NoOpenTurn(s))
                 => /\ Len(emitted') = n + 1
                    /\ SubSeq(emitted', 1, n) = emitted
                    /\ emitted'[n + 1].kind = "turn"
                    /\ emitted'[n + 1].span.metadata.turn_number = state.turnNumber + 1
                    /\ emitted'[n + 1].span.span_id = sessionStates'[s].currentTurnSpanId]_vars

\* session.idle has just closed the turn of a top-level session and kept its state
C9_Witness ==
    /\ lastCall.op = "session.idle"
    /\ ~NoSessionState(lastCall.sessionID)
    /\ ~HasParent(sessionStates[lastCall.sessionID])
    /\ sessionStates[lastCall.sessionID].currentTurnSpanId = NoId
    /\ sessionStates[lastCall.sessionID].turnNumber >= 1
    /\ Len(emitted) >= 3
    /\ LastOf(emitted).kind = "turn.close"
    /\ LastOf(emitted).session = lastCall.sessionID
    /\ \A i \in 1..Len(emitted) :
           ~IsClosing(emitted[i].span, sessionStates[lastCall.sessionID].rootSpanId)

(***************************************************************************)
(* C10: session.idle for a child session emits the merge closing its open  *)
(* turn, if it has one, and then the merge closing its root span, and      *)
(* removes its SessionState; later events and hook calls for that id are   *)
(* ignored.                                                                *)
(***************************************************************************)
\* a child's root span was emitted for s and s has no SessionState any more
ChildGone(s) ==
    /\ NoSessionState(s)
    /\ \E i \in 1..Len(emitted) :
           /\ emitted[i].session = s
           /\ emitted[i].kind = "root"
           /\ "parent_session_id" \in DOMAIN emitted[i].span.metadata

C10_IdleChild ==
    [][\A s \in SessionIds :
          LET state == sessionStates[s]
              n == Len(emitted)
              k == IF state.currentTurnSpanId # NoId THEN 1 ELSE 0
          IN  /\ (/\ Delivers("session.idle", s)
                  /\ ~NoSessionState(s)
                  /\ HasParent(state))
                 => /\ Len(emitted') = n + k + 1
                    /\ SubSeq(emitted', 1, n) = emitted
                    /\ k = 1 => IsClosing(emitted'[n + 1].span, state.currentTurnSpanId)
                    /\ IsClosing(emitted'[n + k + 1].span, state.rootSpanId)
                    /\ s \notin DOMAIN sessionStates'
              /\ (/\ lastCall'.sessionID = s
                  /\ lastCall'.op # "session.created"
                  /\ ChildGone(s))
                 => /\ emitted' = emitted
                    /\ sessionStates' = sessionStates]_vars

\* session.idle has just closed the open turn and the root span of a child session
C10_Witness ==
    /\ lastCall.op = "session.idle"
    /\ ChildGone(lastCall.sessionID)
    /\ Len(emitted) >= 5
    /\ emitted[Len(emitted) - 1].kind = "turn.close"
    /\ emitted[Len(emitted) - 1].session = lastCall.sessionID
    /\ \E i \in 1..(Len(emitted) - 2) :
           /\ emitted[i].session = lastCall.sessionID
           /\ emitted[i].kind = "root"
           /\ IsClosing(LastOf(emitted).span, emitted[i].span.span_id)

(***************************************************************************)
(* C11: session.deleted for a session with a SessionState emits the merge  *)
(* closing the open turn, if there is one, before the merge closing the    *)
(* root span, and leaves no SessionState for the session id.               *)
(***************************************************************************)
C11_DeletedClosesTurnThenRoot ==
    [][\A s \in SessionIds :
          LET state == sessionStates[s]
              n == Len(emitted)
              k == IF state.currentTurnSpanId # NoId THEN 1 ELSE 0
          IN  (Delivers("session.deleted", s) /\ ~NoSessionState(s))
              => /\ Len(emitted') = n + k + 1
                 /\ SubSeq(emitted', 1, n) = emitted
                 /\ k = 1 => IsClosing(emitted'[n + 1].span, state.currentTurnSpanId)
                 /\ IsClosing(emitted'[n + k + 1].span, state.rootSpanId)
                 /\ emitted'[n + k + 1].span.metadata.total_turns = state.turnNumber
                 /\ emitted'[n + k + 1].span.metadata.total_tool_calls = state.toolCallCount
                 /\ s \notin DOMAIN sessionStates']_vars

\* session.deleted has just closed an open turn and then the root span
C11_Witness ==
    /\ lastCall.op = "session.deleted"
    /\ NoSessionState(lastCall.sessionID)
    /\ Len(emitted) >= 4
    /\ emitted[Len(emitted) - 1].kind = "turn.close"
    /\ emitted[Len(emitted) - 1].session = lastCall.sessionID
    /\ \E i \in 1..(Len(emitted) - 2) :
           /\ emitted[i].session = lastCall.sessionID
           /\ emitted[i].kind = "root"
           /\ IsClosing(LastOf(emitted).span, emitted[i].span.span_id)

(***************************************************************************)
(* The error string of a session.error event, as the documentation states  *)
(* it: "<message>, blank line, type: <name>", the name defaulting to       *)
(* "UnknownError" and the message to the name.                             *)
(***************************************************************************)
StatedErrorName(e) == IF e.name = NoStr \/ e.name = "" THEN "UnknownError" ELSE e.name

StatedErrorString(e) ==
    (IF e.message = NoStr \/ e.message = "" THEN StatedErrorName(e) ELSE e.message)
        \o "\n\ntype: " \o StatedErrorName(e)

(***************************************************************************)
(* C12: session.error for a session with an open turn emits the merge      *)
(* closing the turn and then the merge closing the root span, both with    *)
(* the error string of the event, the root with error_type = name in its   *)
(* metadata, and removes the SessionState.                                 *)
(***************************************************************************)
C12_ErrorClosesTurnAndRoot ==
    [][\A s \in SessionIds :
          LET state == sessionStates[s]
              n == Len(emitted)
              e == lastCall'.arg
          IN  (Delivers("session.error", s) /\ ~NoOpenTurn(s))
              => /\ Len(emitted') = n + 2
                 /\ SubSeq(emitted', 1, n) = emitted
                 /\ IsClosing(emitted'[n + 1].span, state.currentTurnSpanId)
                 /\ emitted'[n + 1].span.error = StatedErrorString(e)
                 /\ IsClosing(emitted'[n + 2].span, state.rootSpanId)
                 /\ emitted'[n + 2].span.error = StatedErrorString(e)
                 /\ emitted'[n + 2].span.metadata.error_type = StatedErrorName(e)
                 /\ s \notin DOMAIN sessionStates']_vars

\* session.error with a name and no message has just closed a turn and the root
C12_Witness ==
    /\ lastCall.op = "session.error"
    /\ lastCall.arg = [name |-> "ApiError", message |-> NoStr]
    /\ NoSessionState(lastCall.sessionID)
    /\ Len(emitted) >= 4
    /\ emitted[Len(emitted) - 1].kind = "turn.close"
    /\ emitted[Len(emitted) - 1].span.error = "ApiError\n\ntype: ApiError"
    /\ LastOf(emitted).kind = "root.close"
    /\ LastOf(emitted).span.error = "ApiError\n\ntype: ApiError"
    /\ LastOf(emitted).span.metadata.error_type = "ApiError"

(***************************************************************************)
(* C13: session.error for a session with a SessionState and no open turn   *)
(* emits exactly one record, the merge closing the root span with the      *)
(* error string; no turn is touched, and the SessionState is removed.      *)
(***************************************************************************)
C13_ErrorWithoutTurn ==
    [][\A s \in SessionIds :
          LET state == sessionStates[s]
              n == Len(emitted)
              e == lastCall'.arg
          IN  (/\ Delivers("session.error", s)
               /\ ~NoSessionState(s)
               /\ state.currentTurnSpanId = NoId)
              => /\ Len(emitted') = n + 1
                 /\ SubSeq(emitted', 1, n) = emitted
                 /\ IsClosing(emitted'[n + 1].span, state.rootSpanId)
                 /\ emitted'[n + 1].span.error = StatedErrorString(e)
                 /\ Len(spans') = Len(spans)
                 /\ \A i \in 1..Len(spans) :
                        spans[i].span_id # state.rootSpanId => spans'[i] = spans[i]
                 /\ s \notin DOMAIN sessionStates']_vars

\* session.error has just closed the root of a session whose turn idle had closed
C13_Witness ==
    /\ lastCall.op = "session.error"
    /\ NoSessionState(lastCall.sessionID)
    /\ Len(emitted) >= 4
    /\ emitted[Len(emitted) - 1].kind = "turn.close"
    /\ emitted[Len(emitted) - 1].session = lastCall.sessionID
    /\ "error" \notin DOMAIN emitted[Len(emitted) - 1].span
    /\ LastOf(emitted).kind = "root.close"
    /\ LastOf(emitted).session = lastCall.sessionID
    /\ "error" \in DOMAIN LastOf(emitted).span

(***************************************************************************)
(* C14: the total_turns and total_tool_calls of a record closing a root    *)
(* span are the numbers of turn spans and of tool spans emitted for the    *)
(* session since that root span was emitted.                               *)
(***************************************************************************)
IsTurnRecord(e) == e.kind = "turn" /\ ~IsMerge(e.span)

IsToolRecord(e) == SpanType(e.span) = "tool" /\ ~IsMerge(e.span)

\* positions between i and j of the turn spans of session s
TurnsBetween(i, j, s) ==
    {x \in (i + 1)..(j - 1) : emitted[x].session = s /\ IsTurnRecord(emitted[x])}

\* positions between i and j of the tool spans of session s
ToolsBetween(i, j, s) ==
    {x \in (i + 1)..(j - 1) : emitted[x].session = s /\ IsToolRecord(emitted[x])}

C14_TotalsCountSpans ==
    \A i, j \in 1..Len(emitted) :
        (/\ i < j
         /\ emitted[i].kind = "root"
         /\ IsClosing(emitted[j].span, emitted[i].span.span_id))
        => /\ emitted[j].span.metadata.total_turns =
                  Cardinality(TurnsBetween(i, j, emitted[i].session))
           /\ emitted[j].span.metadata.total_tool_calls =
                  Cardinality(ToolsBetween(i, j, emitted[i].session))

\* a root span was closed after one turn with one tool call
C14_Witness ==
    \E i, j \in 1..Len(emitted) :
        /\ i < j
        /\ emitted[i].kind = "root"
        /\ IsClosing(emitted[j].span, emitted[i].span.span_id)
        /\ emitted[j].span.metadata.total_turns = 1
        /\ emitted[j].span.metadata.total_tool_calls = 1
        /\ Cardinality(ToolsBetween(i, j, emitted[i].session)) = 1

(***************************************************************************)
(* C15: every record emitted for a session carries as root_span_id the     *)
(* root span id of the top-most ancestor of the session: the session's own *)
(* root span id when it was created top-level, and otherwise what holds    *)
(* for its parent at the time the session was linked to it.                *)
(***************************************************************************)
\* position of the root span that session s had when record x was emitted, or 0
CreationOf(s, x) ==
    Max({0} \cup {i \in 1..x : emitted[i].session = s /\ emitted[i].kind = "root"})

RECURSIVE TraceRootAt(_, _)
TraceRootAt(s, x) ==
    LET c == CreationOf(s, x)
    IN  IF c = 0 THEN NoId
        ELSE IF "parent_session_id" \in DOMAIN emitted[c].span.metadata
        THEN TraceRootAt(emitted[c].span.metadata.parent_session_id, c - 1)
        ELSE emitted[c].span.span_id

\* how many sessions lie above session s when record x was emitted
RECURSIVE DepthAt(_, _)
DepthAt(s, x) ==
    LET c == CreationOf(s, x)
    IN  IF c = 0 THEN 0
        ELSE IF "parent_session_id" \in DOMAIN emitted[c].span.metadata
        THEN 1 + DepthAt(emitted[c].span.metadata.parent_session_id, c - 1)
        ELSE 0

C15_RootSpanIdIsTraceRoot ==
    \A x \in 1..Len(emitted) :
        /\ emitted[x].span.root_span_id # NoId
        /\ emitted[x].span.root_span_id = TraceRootAt(emitted[x].session, x)

\* a turn was opened in a session two levels below the top of its trace
C15_Witness ==
    \E x \in 1..Len(emitted) :
        /\ emitted[x].kind = "turn"
        /\ DepthAt(emitted[x].session, x) = 2
        /\ emitted[x].span.root_span_id = emitted[1].span.span_id

(***************************************************************************)
(* C16: every tool span and every llm span names as span_parents[0] a turn *)
(* span of the same session that was emitted before it and that no record  *)
(* emitted before it had closed.                                           *)
(***************************************************************************)
\* the turn span at position i is open when the record at position x is emitted
OpenTurnAt(i, x) ==
    /\ i < x
    /\ IsTurnRecord(emitted[i])
    /\ ~\E j \in (i + 1)..(x - 1) : IsClosing(emitted[j].span, emitted[i].span.span_id)

C16_ChildOfOpenTurn ==
    \A x \in 1..Len(emitted) :
        SpanType(emitted[x].span) \in {"tool", "llm"}
        => /\ Len(emitted[x].span.span_parents) >= 1
           /\ \E i \in 1..(x - 1) :
                  /\ OpenTurnAt(i, x)
                  /\ emitted[i].session = emitted[x].session
                  /\ emitted[i].span.span_id = emitted[x].span.span_parents[1]

\* a tool span and an llm span were emitted under the open second turn of a session
C16_Witness ==
    \E x, y \in 1..Len(emitted) :
        /\ SpanType(emitted[x].span) = "tool"
        /\ SpanType(emitted[y].span) = "llm"
        /\ emitted[x].span.span_parents = emitted[y].span.span_parents
        /\ \E i \in 1..(x - 1) :
               /\ OpenTurnAt(i, x)
               /\ emitted[i].span.span_id = emitted[x].span.span_parents[1]
               /\ emitted[i].span.metadata.turn_number = 2

(***************************************************************************)
(* C17: message.updated emits an llm span if and only if the role is       *)
(* assistant, a completion timestamp is present, the session has a         *)
(* SessionState with an open turn and the message id is not in             *)
(* processedLlmMessages; otherwise it emits nothing and changes no state.  *)
(***************************************************************************)
StatedAccepted(s, m) ==
    /\ m.role = "assistant"
    /\ m.time.completed # NoNum /\ m.time.completed # 0
    /\ ~NoOpenTurn(s)
    /\ m.id \notin sessionStates[s].processedLlmMessages

C17_LlmSpanIffAccepted ==
    [][\A s \in SessionIds :
          LET m == lastCall'.arg
              n == Len(emitted)
          IN  Delivers("message.updated", s)
              => IF StatedAccepted(s, m)
                 THEN /\ Len(emitted') = n + 1
                      /\ SubSeq(emitted', 1, n) = emitted
                      /\ SpanType(emitted'[n + 1].span) = "llm"
                      /\ emitted'[n + 1].span.metadata.message_id = m.id
                 ELSE /\ emitted' = emitted
                      /\ spans' = spans
                      /\ sessionStates' = sessionStates]_vars

(***************************************************************************)
(* C18: insertSpan of a merge record whose span_id matches a stored record *)
(* keeps the number and order of the stored records; in the matched record *)
(* a metadata or metrics key absent from the update keeps its value and a  *)
(* key present in the update takes the update's value.                     *)
(***************************************************************************)
Matches(stored, span) == \E i \in 1..Len(stored) : stored[i].span_id = span.span_id

\* object new is object old overlaid key by key with object upd
MergedKeywise(new, old, upd) ==
    /\ DOMAIN new = DOMAIN old \cup DOMAIN upd
    /\ \A k \in DOMAIN new : new[k] = IF k \in DOMAIN upd THEN upd[k] ELSE old[k]

C18_MergeKeepsOtherKeys ==
    \A span \in SinkMerges :
        Matches(spans, span)
        => LET after == InsertSpan(spans, span)
               i == CHOOSE x \in 1..Len(spans) :
                        /\ spans[x].span_id = span.span_id
                        /\ \A y \in 1..(x - 1) : spans[y].span_id # span.span_id
           IN  /\ Len(after) = Len(spans)
               /\ \A j \in 1..Len(spans) : j # i => after[j] = spans[j]
               /\ after[i].span_id = spans[i].span_id
               /\ MergedKeywise(ObjectOf(after[i], "metadata"), ObjectOf(spans[i], "metadata"),
                                ObjectOf(span, "metadata"))
               /\ MergedKeywise(ObjectOf(after[i], "metrics"), ObjectOf(spans[i], "metrics"),
                                ObjectOf(span, "metrics"))

\* a stored record was closed by a merge and kept its metrics.start and metadata.a
C18_Witness ==
    /\ lastCall.op = "insertSpan"
    /\ \E i \in 1..Len(spans) :
           /\ IsMerge(spans[i])
           /\ spans[i].metrics = [start |-> 1, end |-> 3]
           /\ spans[i].metadata = [a |-> 1, b |-> 1]
           /\ i < Len(spans)

(***************************************************************************)
(* C19: insertSpan of a merge record whose span_id matches no stored       *)
(* record appends it as the new last record, as it would a record that is  *)
(* no merge, and returns its span_id; nothing is raised.                   *)
(***************************************************************************)
C19_UnmatchedMergeAppended ==
    /\ \A span \in SinkMerges :
           ~Matches(spans, span)
           => /\ InsertSpan(spans, span) = Append(spans, span)
              /\ InsertSpanReturn(spans, span) = span.span_id
    /\ lastCall.op = "insertSpan" => raised = FALSE /\ lastCall.returned # NoId

\* a merge record that matched nothing was stored behind another record
C19_Witness ==
    /\ lastCall.op = "insertSpan"
    /\ Len(spans) >= 2
    /\ IsMerge(spans[Len(spans)])
    /\ spans[Len(spans)] \in SinkMerges
    /\ lastCall.returned = spans[Len(spans)].span_id
    /\ \A i \in 1..(Len(spans) - 1) : spans[i].span_id # spans[Len(spans)].span_id

(***************************************************************************)
(* C20: in the tree spansToTree builds, the children of every node are in  *)
(* ascending order of metrics.start (an absent start counting as 0), and   *)
(* children with equal metrics.start are in the order of their positions   *)
(* in the input list.                                                      *)
(***************************************************************************)
RECURSIVE ChildrenInOrder(_)
ChildrenInOrder(node) ==
    /\ \A c \in 1..(Len(node.children) - 1) :
           LET a == node.children[c]
               b == node.children[c + 1]
               aStart == IF "start" \in DOMAIN a.metrics THEN a.metrics.start ELSE 0
               bStart == IF "start" \in DOMAIN b.metrics THEN b.metrics.start ELSE 0
           IN  aStart < bStart \/ (aStart = bStart /\ a.index < b.index)
    /\ \A c \in 1..Len(node.children) : ChildrenInOrder(node.children[c])

C20_SiblingsOrdered ==
    (lastCall.op = "spansToTree" /\ lastCall.returned # <<>>)
    => ChildrenInOrder(lastCall.returned)

\* a tree was built whose root has a child that was inserted after its next sibling
C20_Witness ==
    /\ lastCall.op = "spansToTree"
    /\ lastCall.returned # <<>>
    /\ Len(lastCall.returned.children) = 2
    /\ lastCall.returned.children[1].index > lastCall.returned.children[2].index

(***************************************************************************)
(* C21: in the tree assembled from the collected records, a tool span that *)
(* was emitted before an llm span of the same turn stands before that llm  *)
(* span among the children of the turn.                                    *)
(***************************************************************************)
RECURSIVE ToolsBeforeLlm(_)
ToolsBeforeLlm(node) ==
    /\ \A a, b \in 1..Len(node.children) :
           (/\ node.children[a].type = "tool"
            /\ node.children[b].type = "llm"
            /\ node.children[a].index < node.children[b].index)
           => a < b
    /\ \A c \in 1..Len(node.children) : ToolsBeforeLlm(node.children[c])

C21_ToolSpansBeforeLlmSpan ==
    SpansToTree(spans) # <<>> => ToolsBeforeLlm(SpansToTree(spans))

(***************************************************************************)
(* C22: spansToTree returns null for an empty list and for a list without  *)
(* a root candidate; otherwise the root is the first record, in list       *)
(* order, that has no parent or has its own span_id as first parent, and   *)
(* the children of a node are exactly the records whose first parent is    *)
(* the node's span_id and is not their own span_id.                        *)
(***************************************************************************)
FirstParent(span) ==
    IF "span_parents" \in DOMAIN span /\ span.span_parents # <<>>
    THEN span.span_parents[1] ELSE NoId

RootCandidate(span) == FirstParent(span) = NoId \/ FirstParent(span) = span.span_id

RECURSIVE ChildrenAsStated(_, _)
ChildrenAsStated(stored, node) ==
    /\ {node.children[c].index : c \in 1..Len(node.children)} =
           {i \in 1..Len(stored) :
               /\ FirstParent(stored[i]) = node.span_id
               /\ FirstParent(stored[i]) # stored[i].span_id}
    /\ \A c, d \in 1..Len(node.children) :
           c # d => node.children[c].index # node.children[d].index
    /\ \A c \in 1..Len(node.children) : ChildrenAsStated(stored, node.children[c])

C22_RootAndChildren ==
    lastCall.op = "spansToTree"
    => IF \A i \in 1..Len(spans) : ~RootCandidate(spans[i])
       THEN lastCall.returned = <<>>
       ELSE /\ lastCall.returned # <<>>
            /\ RootCandidate(spans[lastCall.returned.index])
            /\ \A i \in 1..(lastCall.returned.index - 1) : ~RootCandidate(spans[i])
            /\ lastCall.returned.span_id = spans[lastCall.returned.index].span_id
            /\ ChildrenAsStated(spans, lastCall.returned)

\* the root is not the first record and has a child that names two parents
C22_Witness ==
    /\ lastCall.op = "spansToTree"
    /\ lastCall.returned # <<>>
    /\ lastCall.returned.index = 2
    /\ \E c \in 1..Len(lastCall.returned.children) :
           Len(spans[lastCall.returned.children[c].index].span_parents) = 2
NewRecords == SubSeq(emitted', Len(emitted) + 1, Len(emitted'))

\* the SessionState after the call holds what the record r announces
StateFollows(r) ==
    LET s == r.session
        id == r.span.span_id
    IN  CASE r.kind = "root" ->
                 /\ s \in DOMAIN sessionStates'
                 /\ sessionStates'[s].rootSpanId = id
                 /\ sessionStates'[s].turnNumber = 0
          [] r.kind = "turn" ->
                 /\ sessionStates'[s].currentTurnSpanId = id
                 /\ sessionStates'[s].turnNumber = sessionStates[s].turnNumber + 1
          [] r.kind = "tool" ->
                 sessionStates'[s].toolCallCount = sessionStates[s].toolCallCount + 1
          [] r.kind = "llm" ->
                 r.span.metadata.message_id \in sessionStates'[s].processedLlmMessages
          [] r.kind = "turn.close" ->
                 s \in DOMAIN sessionStates' => sessionStates'[s].currentTurnSpanId # id
          [] r.kind = "root.close" ->
                 s \notin DOMAIN sessionStates'

C24_FailedWriteChangesNothing ==
    [][/\ \A i \in 1..Len(NewRecords) :
              /\ \A k \in 1..Len(emitted) : emitted[k] # NewRecords[i]
              /\ \A j \in 1..Len(NewRecords) : i # j => NewRecords[i] # NewRecords[j]
              /\ StateFollows(NewRecords[i])
       /\ Len(NewRecords) > 0 => ~raised'
       /\ pc' = "running"]_vars

\* the write of a turn span failed, and a tool span was emitted for that turn later
C24_Witness ==
    /\ host.sink = "client"
    /\ \E i, j \in 1..Len(emitted) :
           /\ i < j
           /\ IsTurnRecord(emitted[i])
           /\ \A k \in 1..Len(spans) : spans[k].span_id # emitted[i].span.span_id
           /\ IsToolRecord(emitted[j])
           /\ emitted[j].span.span_parents = <<emitted[i].span.span_id>>
           /\ sessionStates[emitted[j].session].toolCallCount = 1
(***************************************************************************)
(* C25: a call changes the SessionState of no session but the one it is    *)
(* addressed to: every other session keeps its state, or stays without     *)
(* one.  In particular the parent's state is kept when a child is created, *)
(* goes idle, errors or is deleted, and a child's state when its parent is *)
(* closed.                                                                 *)
(***************************************************************************)
StateKept(s) ==
    /\ s \in DOMAIN sessionStates <=> s \in DOMAIN sessionStates'
    /\ s \in DOMAIN sessionStates => sessionStates'[s] = sessionStates[s]

C25_OtherSessionsUntouched ==
    [][\A s \in SessionIds \cup {UnknownSession} :
           s # lastCall'.sessionID => StateKept(s)]_vars

\* a parent was deleted while its child had a state, which the child still has
C25_Witness ==
    /\ lastCall.op = "session.deleted"
    /\ ~HasState(lastCall.sessionID)
    /\ \E c \in DOMAIN sessionStates :
           /\ sessionStates[c].parentSessionId = lastCall.sessionID
           /\ \E i \in 1..Len(emitted) :
                  /\ emitted[i].kind = "root"
                  /\ emitted[i].session = c
                  /\ emitted[i].span.span_id = sessionStates[c].rootSpanId
    /\ LastOf(emitted).kind = "root.close"
    /\ LastOf(emitted).session = lastCall.sessionID
(***************************************************************************)
(* C26: the k-th chat hook accepted for a session emits a turn span of     *)
(* type "task" named "Turn k" whose span_parents holds the session's own   *)
(* root span id and nothing else; k counts the turns of the session from   *)
(* 1, across session.idle events, until the session ends.                  *)
(***************************************************************************)
\* position of the last record that closed a root span of session s, 0 if none
LastEndOf(s) ==
    Max({0} \cup {i \in 1..Len(emitted) :
                     emitted[i].session = s /\ emitted[i].kind = "root.close"})

\* the turn spans emitted for session s since it last ended
TurnsOf(s) == TurnsBetween(LastEndOf(s), Len(emitted) + 1, s)

C26_TurnsNumberedFromOne ==
    [][\A s \in SessionIds :
          (Delivers("chat.message", s) /\ ~NoSessionState(s))
          => LET turn == LastOf(emitted').span
             IN  /\ LastOf(emitted').kind = "turn"
                 /\ turn.span_attributes.type = "task"
                 /\ turn.span_attributes.name =
                        "Turn " \o NumberToString(Cardinality(TurnsOf(s)) + 1)
                 /\ turn.span_parents = <<sessionStates[s].rootSpanId>>]_vars
(***************************************************************************)
(* C27: an llm span carries metrics.prompt_tokens = the message's input    *)
(* token count, metrics.completion_tokens = its output token count and     *)
(* metrics.tokens = input + output + reasoning token counts, a missing     *)
(* count being taken as 0.                                                 *)
(***************************************************************************)
StatedCount(x) == IF x = NoNum THEN 0 ELSE x

C27_TokensAreSummed ==
    [][\A s \in SessionIds :
          (/\ Delivers("message.updated", s)
           /\ Len(emitted') > Len(emitted))
          => LET counts == lastCall'.arg.tokens
                 metrics == LastOf(emitted').span.metrics
             IN  /\ LastOf(emitted').kind = "llm"
                 /\ metrics.prompt_tokens = StatedCount(counts.input)
                 /\ metrics.completion_tokens = StatedCount(counts.output)
                 /\ metrics.tokens = StatedCount(counts.input) + StatedCount(counts.output)
                                         + StatedCount(counts.reasoning)]_vars

\* an llm span was emitted for a message with reasoning tokens and no output count
C27_Witness ==
    /\ lastCall.op = "message.updated"
    /\ emitted # <<>>
    /\ LastOf(emitted).kind = "llm"
    /\ lastCall.arg.tokens = [input |-> 10, output |-> NoNum, reasoning |-> 3]
    /\ LastOf(emitted).span.metrics.tokens = 13
    /\ LastOf(emitted).span.metrics.completion_tokens = 0
(***************************************************************************)
(* C28: every merge record has id = span_id; the creation record of every  *)
(* span a later merge names has id = span_id; a record whose id differs    *)
(* from its span_id is the creation record of a tool span, which no merge  *)
(* ever names.                                                             *)
(***************************************************************************)
C28_MergeTargetsKeepId ==
    \A i \in 1..Len(emitted) :
        LET r == emitted[i].span
        IN  /\ IsMerge(r) => r.id = r.span_id
            /\ (~IsMerge(r) /\ \E j \in (i + 1)..Len(emitted) :
                                    /\ IsMerge(emitted[j].span)
                                    /\ emitted[j].span.span_id = r.span_id)
               => r.id = r.span_id
            /\ r.id # r.span_id
               => /\ SpanType(r) = "tool"
                  /\ \A j \in 1..Len(emitted) :
                         IsMerge(emitted[j].span)
                         => /\ emitted[j].span.span_id # r.span_id
                            /\ emitted[j].span.span_id # r.id

\* a tool span with an id of its own was emitted, and its turn was closed after it
C28_Witness ==
    \E i, j, k \in 1..Len(emitted) :
        /\ i < j /\ j < k
        /\ IsTurnRecord(emitted[i])
        /\ IsToolRecord(emitted[j])
        /\ emitted[j].span.id # emitted[j].span.span_id
        /\ emitted[j].span.span_parents = <<emitted[i].span.span_id>>
        /\ IsClosing(emitted[k].span, emitted[i].span.span_id)
        /\ emitted[k].span.id = emitted[i].span.id
(***************************************************************************)
(* C29: a tool span is named "<tool>: <display title>".  For the tools     *)
(* read and edit and a title with a "/" in it the display title is what    *)
(* follows the last "/", or the whole title when nothing follows it; for   *)
(* any other tool or title it is the title.  A display title of more than  *)
(* 50 characters is cut to its first 47 characters and "...", so that the  *)
(* display part is never longer than 50.  With an empty title the name is  *)
(* the tool name alone.                                                    *)
(***************************************************************************)
\* d is the display title the claim gives for tool and title
IsDisplayTitle(d, tool, title) ==
    IF tool \in {"read", "edit"} /\ \E k \in 1..Len(title) : CharAt(title, k) = "/"
    THEN \E k \in 1..Len(title) :
             /\ CharAt(title, k) = "/"
             /\ \A x \in (k + 1)..Len(title) : CharAt(title, x) # "/"
             /\ d = IF k = Len(title) THEN title ELSE SubSeq(title, k + 1, Len(title))
    ELSE d = title

C29_ToolSpanName ==
    \A i \in 1..Len(emitted) :
        IsToolRecord(emitted[i])
        => LET name == emitted[i].span.span_attributes.name
               tool == emitted[i].span.metadata.tool_name
               title == emitted[i].span.metadata.title
               prefix == tool \o ": "
               shown == SubSeq(name, Len(prefix) + 1, Len(name))
           IN  IF title = NoStr \/ title = ""
               THEN name = tool
               ELSE /\ SubSeq(name, 1, Len(prefix)) = prefix
                    /\ Len(shown) <= 50
                    /\ \/ IsDisplayTitle(shown, tool, title)
                       \/ \E d \in {title} \cup {SubSeq(title, k, Len(title)) :
                                                     k \in 1..Len(title)} :
                              /\ IsDisplayTitle(d, tool, title)
                              /\ Len(d) > 50
                              /\ shown = SubSeq(d, 1, 47) \o "..."

\* a read of a path whose last segment has more than 50 characters was named
C29_Witness ==
    \E i \in 1..Len(emitted) :
        /\ IsToolRecord(emitted[i])
        /\ emitted[i].span.metadata.tool_name = "read"
        /\ emitted[i].span.metadata.title = "/a/" \o Chars50 \o "x"
        /\ emitted[i].span.span_attributes.name = "read: " \o SubSeq(Chars50, 1, 47) \o "..."
(***************************************************************************)
(* C30: the root span of a child session is named "<agent>: <description>" *)
(* when the session title is "<description> (@<agent> subagent)" for a     *)
(* description and an agent name, the title itself when it is of any other *)
(* form, and "Subagent" when the title is missing or empty.                *)
(***************************************************************************)
\* title is description, " (@", agent, " subagent)": agent starts at a, ends at b
HasStatedForm(title, a, b) ==
    /\ a >= 5 /\ a <= b
    /\ SubSeq(title, a - 3, a - 1) = " (@"
    /\ SubSeq(title, b + 1, Len(title)) = " subagent)"
    /\ \A x \in a..b : CharAt(title, x) \notin SpaceChars \cup {"(", ")", "@"}

\* the names the claim allows for a child session with this title
StatedChildNames(title) ==
    IF title = NoStr \/ title = "" THEN {"Subagent"}
    ELSE LET forms == {ab \in (1..Len(title)) \X (1..Len(title)) :
                          HasStatedForm(title, ab[1], ab[2])}
         IN  IF forms = {} THEN {title}
             ELSE {SubSeq(title, ab[1], ab[2]) \o ": " \o SubSeq(title, 1, ab[1] - 4) :
                      ab \in forms}

C30_ChildRootName ==
    [][\A s \in SessionIds :
          (/\ Delivers("session.created", s)
           /\ Len(emitted') > Len(emitted)
           /\ "is_subagent" \in DOMAIN LastOf(emitted').span.metadata)
          => LastOf(emitted').span.span_attributes.name
                 \in StatedChildNames(lastCall'.title)]_vars
(***************************************************************************)
(* C31: the llm span of an accepted completion has for span_parents the    *)
(* one turn that is open when the completion is processed, the turn the    *)
(* session opened last, also when the message's fragments arrived during   *)
(* an earlier turn; its metrics.start and metrics.end are the message's    *)
(* created and completed times, whatever the clock reads.                  *)
(***************************************************************************)
\* positions in em of the turn spans of session s
TurnPositions(em, s) == {i \in 1..Len(em) : em[i].session = s /\ em[i].kind = "turn"}

C31_LlmSpanUnderOpenTurn ==
    [][\A s \in SessionIds :
          (Delivers("message.updated", s) /\ Len(emitted') > Len(emitted))
          => LET llm == LastOf(emitted').span
                 turns == TurnPositions(emitted, s)
             IN  /\ turns # {}
                 /\ Max(turns) \in OpenTurnsIn(emitted, s)
                 /\ llm.span_parents = <<emitted[Max(turns)].span.span_id>>
                 /\ llm.metrics.start = lastCall'.arg.time.created
                 /\ llm.metrics.end = lastCall'.arg.time.completed]_vars

\* the first turn was closed with the output of a fragment of the message, the
\* completion came during the second turn, and the clock has moved on since
\* the message was created
C31_Witness ==
    \E i, j, k, l \in 1..Len(emitted) :
        /\ i < j /\ j < k /\ k < l
        /\ emitted[i].kind = "turn" /\ emitted[k].kind = "turn"
        /\ emitted[j].kind = "turn.close"
        /\ emitted[j].span.span_id = emitted[i].span.span_id
        /\ emitted[j].span.output \in PartTexts
        /\ emitted[l].kind = "llm"
        /\ emitted[l].span.span_parents = <<emitted[k].span.span_id>>
        /\ emitted[l].span.output[1].content \in PartTexts
        /\ emitted[l].span.metrics.start < now
        /\ l = Len(emitted) /\ lastCall.op = "message.updated"
\* what is captured for the open turn of session s in the states st: the text
\* of the last marked fragment, NoStr for none
Captured(st, s) == IF s \in DOMAIN st THEN st[s].currentOutput ELSE NoStr

(***************************************************************************)
(* C32: the output of the merge record that closes a turn is the text of   *)
(* the last text fragment with an end-of-stream marker received for  *)
(* the session while that turn was open, and is absent when there was      *)
(* none: a fragment without the marker, a fragment received while no turn  *)
(* is open and the output of an earlier turn never reach it.               *)
(* Step by step: a marked text fragment received during the open turn is   *)
(* captured (an empty text as no output), no other call captures anything, *)
(* a new turn starts with nothing captured, and the closing record carries *)
(* what is captured.                                                       *)
(***************************************************************************)
C32_TurnOutputIsLastMarkedText ==
    [][\A s \in SessionIds :
          LET part == lastCall'.arg
              opened == \E k \in (Len(emitted) + 1)..Len(emitted') :
                            emitted'[k].session = s /\ emitted'[k].kind = "turn"
              closings == {k \in (Len(emitted) + 1)..Len(emitted') :
                              emitted'[k].session = s /\ emitted'[k].kind = "turn.close"}
          IN  /\ (Delivers("message.part.updated", s) /\ HasState(s))
                  => Captured(sessionStates', s) =
                         IF /\ part.type = "text" /\ part.timeEnd
                            /\ HasOpenTurn(sessionStates[s])
                         THEN OrUndefined(part.text)
                         ELSE Captured(sessionStates, s)
              /\ opened => Captured(sessionStates', s) = NoStr
              /\ \A k \in closings :
                     emitted'[k].span.output = Captured(sessionStates, s)
              /\ (/\ ~Delivers("message.part.updated", s)
                  /\ ~Delivers("session.created", s)
                  /\ ~opened /\ closings = {})
                  => Captured(sessionStates', s) = Captured(sessionStates, s)]_vars

(***************************************************************************)
(* C32, amended: the output of the merge record that closes a turn is the  *)
(* text of the last non-empty text fragment with an end-of-stream marker   *)
(* received for the session while that turn was open, and is absent when   *)
(* there was none: an empty fragment, a fragment without the marker, a     *)
(* fragment received while no turn is open and the output of an earlier    *)
(* turn never reach it.                                                    *)
(***************************************************************************)
C32_TurnOutputIsLastMarkedNonEmptyText ==
    [][\A s \in SessionIds :
          LET part == lastCall'.arg
              opened == \E k \in (Len(emitted) + 1)..Len(emitted') :
                            emitted'[k].session = s /\ emitted'[k].kind = "turn"
              closings == {k \in (Len(emitted) + 1)..Len(emitted') :
                              emitted'[k].session = s /\ emitted'[k].kind = "turn.close"}
          IN  /\ (Delivers("message.part.updated", s) /\ HasState(s))
                  => Captured(sessionStates', s) =
                         IF /\ part.type = "text" /\ part.timeEnd /\ part.text # ""
                            /\ HasOpenTurn(sessionStates[s])
                         THEN part.text
                         ELSE Captured(sessionStates, s)
              /\ opened => Captured(sessionStates', s) = NoStr
              /\ \A k \in closings :
                     emitted'[k].span.output = Captured(sessionStates, s)
              /\ (/\ ~Delivers("message.part.updated", s)
                  /\ ~Delivers("session.created", s)
                  /\ ~opened /\ closings = {})
                  => Captured(sessionStates', s) = Captured(sessionStates, s)]_vars

\* a turn closed with the text of a fragment, and a turn closed with no output
C32_Witness ==
    \E i, j \in 1..Len(emitted) :
        /\ emitted[i].kind = "turn.close" /\ emitted[j].kind = "turn.close"
        /\ emitted[i].span.output \in VariedPartTexts \ {""}
        /\ emitted[j].span.output = NoStr
        /\ emitted[i].span.span_id # emitted[j].span.span_id
(***************************************************************************)
(* C33: the assistant payload in the output of an llm span has for content *)
(* the text of the most recent non-empty text fragment received for the    *)
(* message id before the completion was accepted, "" if there was none;    *)
(* tool_calls is present exactly when a tool-call fragment was accumulated *)
(* for the message id, reasoning exactly when reasoning text was, and then *)
(* it holds the text of the latest reasoning fragment.                     *)
(* Step by step: a fragment changes what is accumulated for its own        *)
(* message id and kind only, no other call of the session's life changes   *)
(* it, and the payload is built from what is accumulated.                  *)
(***************************************************************************)
\* what session s has accumulated for message m in the states st
TextOf(st, s, m) == IF s \in DOMAIN st THEN MapGetStr(st[s].llmOutputParts, m) ELSE NoStr
ReasoningOf(st, s, m) ==
    IF s \in DOMAIN st THEN MapGetStr(st[s].llmReasoningParts, m) ELSE NoStr
CallsOf(st, s, m) ==
    IF s \in DOMAIN st /\ m \in DOMAIN st[s].llmToolCalls THEN st[s].llmToolCalls[m] ELSE <<>>

\* the fragment is one the processor accumulates
IsAccumulated(part, kind, m) ==
    /\ part.type = kind /\ part.messageID = m
    /\ IF kind = "tool"
       THEN part.callID # NoStr /\ part.tool # NoStr /\ part.input # NoStr
       ELSE part.text # ""

C33_AssistantPayload ==
    [][\A s \in SessionIds, m \in VariedMessageIds :
          LET part == lastCall'.arg
              payload == LastOf(emitted').span.output[1]
          IN  /\ (Delivers("message.part.updated", s) /\ HasState(s))
                  => /\ TextOf(sessionStates', s, m) =
                            IF IsAccumulated(part, "text", m) THEN part.text
                            ELSE TextOf(sessionStates, s, m)
                     /\ ReasoningOf(sessionStates', s, m) =
                            IF IsAccumulated(part, "reasoning", m) THEN part.text
                            ELSE ReasoningOf(sessionStates, s, m)
                     /\ (CallsOf(sessionStates', s, m) # <<>>)
                            = (CallsOf(sessionStates, s, m) # <<>>
                               \/ IsAccumulated(part, "tool", m))
              /\ (/\ Delivers("message.updated", s) /\ lastCall'.arg.id = m
                  /\ Len(emitted') > Len(emitted))
                  => /\ payload.content = IF TextOf(sessionStates, s, m) = NoStr THEN ""
                                          ELSE TextOf(sessionStates, s, m)
                     /\ ("tool_calls" \in DOMAIN payload) = (CallsOf(sessionStates, s, m) # <<>>)
                     /\ "tool_calls" \in DOMAIN payload
                            => payload.tool_calls = CallsOf(sessionStates, s, m)
                     /\ ("reasoning" \in DOMAIN payload)
                            = (ReasoningOf(sessionStates, s, m) # NoStr)
                     /\ "reasoning" \in DOMAIN payload
                            => /\ Len(payload.reasoning) = 1
                               /\ payload.reasoning[1].content = ReasoningOf(sessionStates, s, m)
              /\ (/\ ~Delivers("message.part.updated", s)
                  /\ ~Delivers("session.created", s)
                  /\ HasState(s) /\ s \in DOMAIN sessionStates')
                  => /\ TextOf(sessionStates', s, m) = TextOf(sessionStates, s, m)
                     /\ ReasoningOf(sessionStates', s, m) = ReasoningOf(sessionStates, s, m)
                     /\ CallsOf(sessionStates', s, m) = CallsOf(sessionStates, s, m)]_vars

\* an llm span whose payload carries a text, tool calls and reasoning
C33_Witness ==
    /\ lastCall.op = "message.updated"
    /\ Len(emitted) > 0
    /\ LastOf(emitted).kind = "llm"
    /\ LET payload == LastOf(emitted).span.output[1]
       IN  /\ payload.content \in VariedPartTexts \ {""}
           /\ "tool_calls" \in DOMAIN payload
           /\ "reasoning" \in DOMAIN payload
           /\ payload.reasoning[1].content \in VariedReasoningTexts \ {""}
(***************************************************************************)
(* C34: metadata.reasoning of a tool span is the reasoning text that, when *)
(* the "after" hook is processed, is accumulated for the message id whose  *)
(* tool-call fragment carried the call id; it is absent when no tool-call  *)
(* fragment for the call id was accumulated or that message has no         *)
(* reasoning.  The accepted "after" call consumes the link from the call   *)
(* id to the message; no other call but a tool-call fragment changes it.   *)
(***************************************************************************)
\* the message id that session s links call id c to in the states st
LinkOf(st, s, c) == IF s \in DOMAIN st THEN MapGetStr(st[s].toolCallMessageIds, c) ELSE NoStr

C35_MergesFindTheirSpan ==
    host.sink = "collector" =>
        /\ \A k \in 1..Len(emitted) :
               IsMerge(emitted[k].span)
               => \E j \in 1..(k - 1) :
                      /\ ~IsMerge(emitted[j].span)
                      /\ emitted[j].span.span_id = emitted[k].span.span_id
        /\ \A i, j \in 1..Len(spans) : spans[i].span_id = spans[j].span_id => i = j
        /\ Len(spans) = Cardinality({k \in 1..Len(emitted) : ~IsMerge(emitted[k].span)})

\* a turn and a root span were closed by merges, which the collector merged
C35_Witness ==
    /\ host.sink = "collector"
    /\ \E i, j \in 1..Len(emitted) :
           emitted[i].kind = "turn.close" /\ emitted[j].kind = "root.close"
    /\ Len(spans) = Len(emitted) - 2
    /\ Len(spans) >= 3
(***************************************************************************)
(* C36: for every span id at most one merge record that sets metrics.end   *)
(* is ever emitted: a turn is closed once, by the next chat message or by  *)
(* session.idle, session.deleted or session.error, and a root span once,   *)
(* by session.deleted, session.error or the idle of a child session.       *)
(***************************************************************************)
C36_ClosedAtMostOnce ==
    \A i, j \in 1..Len(emitted) :
        (/\ IsClosing(emitted[i].span, emitted[i].span.span_id)
         /\ IsClosing(emitted[j].span, emitted[i].span.span_id))
        => i = j

\* two turns of a session were closed, the first by the next chat message, and
\* then the root span
C36_Witness ==
    \E i, j, k \in 1..Len(emitted) :
        /\ i < j /\ j < k
        /\ emitted[i].kind = "turn.close" /\ emitted[j].kind = "turn.close"
        /\ emitted[i + 1].kind = "turn"
        /\ emitted[k].kind = "root.close"
        /\ emitted[i].session = emitted[j].session
        /\ emitted[j].session = emitted[k].session
(***************************************************************************)
(* C37: for the records collected from a run with one top-level session    *)
(* and its sub-sessions, spansToTree returns a tree in which every         *)
(* collected record is a node exactly once.                                *)
(***************************************************************************)
\* the positions in the list of the spans that the nodes stand for, the nodes
\* of each tree in preorder
RECURSIVE Preorder(_)
Preorder(nodes) ==
    IF nodes = <<>> THEN <<>>
    ELSE <<Head(nodes).index>> \o Preorder(Head(nodes).children) \o Preorder(Tail(nodes))

\* the root span records of top-level sessions
TopLevelRoots ==
    {k \in 1..Len(emitted) :
        emitted[k].kind = "root" /\ "is_subagent" \notin DOMAIN emitted[k].span.metadata}

HandlerStep(s) ==
    lastCall'.sessionID = s /\
    lastCall'.op \in {"chat.message", "session.idle", "message.updated", "resume"}

\* the positions of the merge records that close turn t
TurnCloses(em, t) ==
    {k \in 1..Len(em) : em[k].kind = "turn.close" /\ em[k].span.span_id = t}

\* the turn that is open in session s, NoId if there is none
OpenTurnOf(st, s) == IF s \in DOMAIN st THEN st[s].currentTurnSpanId ELSE NoId

\* the step takes the open turn t of session s away
LosesTurn(s, t) ==
    OpenTurnOf(sessionStates, s) = t /\ t # NoId /\ OpenTurnOf(sessionStates', s) # t

ClosingSuspended(t) ==
    \E i \in 1..Len(suspended) :
        /\ suspended[i].closed = t
        /\ suspended[i].at \in {"prevTurnInserted", "turnSpanInserted"}

SuspendedFor(s, id) ==
    {i \in 1..Len(suspended) :
        /\ suspended[i].handler = "message"
        /\ suspended[i].sessionID = s
        /\ suspended[i].arg.id = id}

\* the positions of the llm spans emitted for session s
LlmSpansOf(em, s) == {k \in 1..Len(em) : em[k].kind = "llm" /\ em[k].session = s}

FirstRecordOf(em, id) ==
    IF \E k \in 1..Len(em) : em[k].span.span_id = id
    THEN CHOOSE k \in 1..Len(em) :
             /\ em[k].span.span_id = id
             /\ \A j \in 1..(k - 1) : em[j].span.span_id # id
    ELSE 0

\* span.error, NoStr for undefined
ErrorOf(span) == IF "error" \in DOMAIN span THEN span.error ELSE NoStr

\* what the records are compared on, ids read as the record that first has them
Compared(em, k) ==
    LET span == em[k].span
    IN  [merge |-> IsMerge(span),
         type |-> AttributeOf(span, "type"),
         span |-> FirstRecordOf(em, span.span_id),
         parents |-> IF HasParents(span)
                     THEN [p \in 1..Len(span.span_parents) |->
                              FirstRecordOf(em, span.span_parents[p])]
                     ELSE <<>>,
         root |-> FirstRecordOf(em, span.root_span_id),
         error |-> ErrorOf(span)]

C40_HooksAgreeWithProcessor ==
    lastCall.op # "hooks" =>
        /\ Len(hooks.emitted) = Len(emitted)
        /\ \A k \in 1..Len(emitted) :
               k <= Len(hooks.emitted) => Compared(hooks.emitted, k) = Compared(emitted, k)
        /\ DOMAIN hooks.sessionStates = DOMAIN sessionStates
====
